---- MODULE Spec2Model ----
(***************************************************************************)
(* A model of the vps-status collector (src/db.py, src/main.py).           *)
(*                                                                         *)
(* Time.  There is one wall clock.  `clock` is its reading in milliseconds *)
(* counted from SnowflakeIdGenerator.epoch, so _current_millis() - epoch   *)
(* is `clock` and int(time.time()) is clock \div 1000 (seconds, counted    *)
(* from the same origin).                                                  *)
(***************************************************************************)
EXTENDS Integers, Sequences, FiniteSets, TLC

(***************************************************************************)
(* Bounds of the model.                                                    *)
(***************************************************************************)
\* Width of the sequence field.  The code uses 12 bits (mask 4095, shifts
\* 12 and 22); the model keeps the layout and scales the width so that the
\* roll-over of the sequence is reached.
SeqBits == 1
\* Largest clock reading (ms) of the identifier specification.
MaxClock == 2
\* Number of next_id() calls of the identifier specification.
MaxIds == 5
\* Number of get_or_create_server / record_heartbeat calls: of concurrent
\* callers, and of one caller alone.
MaxCalls == 2
MaxSeqCalls == 3
\* Largest clock reading (s) of the registry specifications.
MaxSec == 1
\* Numbers of ping and heartbeat rows of the queried server in the
\* aggregation specification.
MaxPings == 2
MaxHbs == 1
\* Number of heartbeat rows of the queried server in the resource
\* specification.
MaxRes == 2
\* Number of registered servers of the probe specification, and how often
\* the clock is set back in it.
NProbed == 3
MaxSetBacks == 1

(***************************************************************************)
(* Program constants.                                                      *)
(***************************************************************************)
\* src/db.py:13  worker_id=1
worker_id == 1
\* src/db.py:43  the worker field lies between bit 12 and bit 22
WorkerBits == 10
\* src/db.py:268  now - 120
PingOkWindow == 120
\* src/db.py:279  now - 600
PingWarnWindow == 600
\* src/db.py:289  now - 120
HeartbeatWindow == 120
\* src/db.py:297  slots=288
DefaultSlots == 288
\* src/db.py:302  24 * 3600
DaySeconds == 24 * 3600
\* src/db.py:365  points=60
DefaultPoints == 60
\* src/db.py:218  subprocess.run(..., timeout=2)
ProbeTimeout == 2
\* src/db.py:58  sqlite3.connect(DB_PATH): the default `timeout` of 5 seconds
\* for which a statement waits for a lock of another connection
BusyTimeout == 5

Threads == {"t1", "t2"}
None == "none"

\* Inputs of the registry operations.  "" stands for an argument that is
\* not supplied (None or the empty string: both are false in `if x:`).
Names == {"X", "Y"}
Ips == {"a", "b"}
\* An identity no server has: every generated id has the worker bit set.
UnknownIds == {0}

VARIABLES
    clock,           \* the wall clock, ms since the generator's epoch
    sequence,        \* SnowflakeIdGenerator.sequence
    last_timestamp,  \* SnowflakeIdGenerator.last_timestamp
    lock,            \* SnowflakeIdGenerator.lock: its holder, or None
    gpc,             \* per thread: where it is inside next_id()
    timestamp,       \* per thread: the local `timestamp` of next_id()
    gret,            \* per thread: <<id>> its last next_id() returned, <<>> if none
    idlog,           \* history: <<id>> or <<>> (raised) for every call, in the
                     \* order in which the calls left the critical section
    servers,         \* table servers: set of rows
    heartbeat_status,\* table heartbeat_status: set of rows
    ping_status,     \* table ping_status: set of rows
    pc,              \* per caller: where it is in its operation
    arg,             \* per caller: the arguments of its operation
    now,             \* per caller: the local `now`
    row,             \* per caller: <<row>> fetched last, <<>> if none
    ret,             \* per caller: what its operation returned or raised
    ncalls,          \* number of operations started so far
    reply,           \* what the read-side query run last returned
    prev,            \* history: what the query before that one returned
    ppc,             \* ping_and_record: where the probe cycle is
    snap,            \* ping_and_record: `servers`, the list probed in this cycle
    todo,            \* ping_and_record: the part of `servers` not yet recorded
    pnow,            \* ping_and_record: the local `now`
    pstart,          \* clock reading at which the running ping was started
    is_online,       \* ping_and_record: the local `is_online`
    pending,         \* rows inserted on the cycle's connection and not committed
    dbwriter,        \* holder of the write lock of the database file, or None
    plog,            \* history: <<server id, outcome>> of every server handled
    nback,           \* history: how often the clock was set back
    busy,             \* per caller: <<pc, clock reading>> since when its statement
                     \* waits for the write lock, <<>> if it never waited
    latency_ms,      \* ping_and_record: the local `latency_ms`, <<>> for None
    shutdown,        \* lifespan: the application is shutting down
    ncycle,          \* ping_worker: number of sleeps that are over
    agent            \* src/agent.py: the state of the reporting client

genVars == <<sequence, last_timestamp, lock, gpc, timestamp, gret, idlog>>
dbVars == <<servers, heartbeat_status, ping_status>>
callVars == <<pc, arg, now, row, ret, ncalls>>
readVars == <<reply, prev>>
probeVars == <<ppc, snap, todo, pnow, pstart, is_online, pending, dbwriter, plog, nback, busy,
               latency_ms, shutdown, ncycle>>
vars == <<clock, genVars, dbVars, callVars, readVars, probeVars, agent>>

RECURSIVE Pow2(_)
Pow2(n) == IF n = 0 THEN 1 ELSE 2 * Pow2(n - 1)

\* 4095 in `& 4095`, as a modulus
SeqSize == Pow2(SeqBits)

\* ((timestamp - epoch) << 22) | (worker_id << 12) | sequence
SnowflakeId(ts, seq) ==
    ts * Pow2(SeqBits + WorkerBits) + worker_id * Pow2(SeqBits) + seq

\* _current_millis(), relative to the epoch
CurrentMillis == clock

\* int(time.time()), relative to the epoch
TimeSeconds == clock \div 1000

(***************************************************************************)
(* SnowflakeIdGenerator.next_id, one thread t.                             *)
(* gpc[t]: "out" (not in a call, or returned), "want" (called, waiting for *)
(* the lock), "spin" (inside the wait-for-next-millisecond loop),          *)
(* "compose" (about to store last_timestamp and return), "raised".         *)
(***************************************************************************)
\* `with self.lock:` can be entered
LockFree == lock = None

\* RaiseRewind with the sequence restarted before raising
RaiseRewindResets(t) ==
    /\ lock' = None
    /\ gpc' = [gpc EXCEPT ![t] = "raised"]
    /\ gret' = [gret EXCEPT ![t] = <<>>]
    /\ idlog' = Append(idlog, <<>>)
    /\ sequence' = 0
    /\ UNCHANGED <<last_timestamp, timestamp>>

\* raise Exception("时钟回拨"): leaving the with-block releases the lock
RaiseRewind(t) ==
    /\ lock' = None
    /\ gpc' = [gpc EXCEPT ![t] = "raised"]
    /\ gret' = [gret EXCEPT ![t] = <<>>]
    /\ idlog' = Append(idlog, <<>>)
    /\ UNCHANGED <<sequence, last_timestamp, timestamp>>

\* SameMillis without the wait on roll-over (the `if self.sequence == 0` lost)
SameMillisNoWait(t) ==
    /\ sequence' = (sequence + 1) % SeqSize
    /\ gpc' = [gpc EXCEPT ![t] = "compose"]
    /\ timestamp' = [timestamp EXCEPT ![t] = CurrentMillis]
    /\ lock' = t
    /\ UNCHANGED <<last_timestamp, gret, idlog>>

\* timestamp == last_timestamp: next sequence number; 0 means used up
SameMillis(t) ==
    /\ sequence' = (sequence + 1) % SeqSize
    /\ gpc' = [gpc EXCEPT ![t] = IF sequence' = 0 THEN "spin" ELSE "compose"]
    /\ timestamp' = [timestamp EXCEPT ![t] = CurrentMillis]
    /\ lock' = t
    /\ UNCHANGED <<last_timestamp, gret, idlog>>

\* timestamp > last_timestamp: the sequence restarts
NewMillis(t) ==
    /\ sequence' = 0
    /\ gpc' = [gpc EXCEPT ![t] = "compose"]
    /\ timestamp' = [timestamp EXCEPT ![t] = CurrentMillis]
    /\ lock' = t
    /\ UNCHANGED <<last_timestamp, gret, idlog>>

\* Take the lock, read the clock and branch on it.
GenRead(t) ==
    /\ gpc[t] = "want"
    /\ LockFree
    /\ IF CurrentMillis < last_timestamp THEN RaiseRewind(t)
       ELSE IF CurrentMillis = last_timestamp THEN SameMillis(t)
       ELSE NewMillis(t)
    /\ UNCHANGED clock

\* GenSpin with one reading of the clock only, whatever it is
GenSpinOnce(t) ==
    /\ gpc[t] = "spin"
    /\ timestamp' = [timestamp EXCEPT ![t] = CurrentMillis]
    /\ gpc' = [gpc EXCEPT ![t] = "compose"]
    /\ UNCHANGED <<clock, sequence, last_timestamp, lock, gret, idlog>>

\* while timestamp <= self.last_timestamp: timestamp = self._current_millis()
GenSpin(t) ==
    /\ gpc[t] = "spin"
    /\ IF timestamp[t] <= last_timestamp
       THEN /\ timestamp' = [timestamp EXCEPT ![t] = CurrentMillis]
            /\ UNCHANGED gpc
       ELSE /\ gpc' = [gpc EXCEPT ![t] = "compose"]
            /\ UNCHANGED timestamp
    /\ UNCHANGED <<clock, sequence, last_timestamp, lock, gret, idlog>>

\* self.last_timestamp = timestamp; compose; return (releases the lock)
GenCompose(t) ==
    /\ gpc[t] = "compose"
    /\ last_timestamp' = timestamp[t]
    /\ gret' = [gret EXCEPT ![t] = <<SnowflakeId(timestamp[t], sequence)>>]
    /\ idlog' = Append(idlog, <<SnowflakeId(timestamp[t], sequence)>>)
    /\ lock' = None
    /\ gpc' = [gpc EXCEPT ![t] = "out"]
    /\ timestamp' = [timestamp EXCEPT ![t] = -1]
    /\ UNCHANGED <<clock, sequence>>

\* A thread calls id_gen.next_id().
CallNextId(t) ==
    /\ gpc[t] \in {"out", "raised"}
    /\ Len(idlog) + Cardinality({u \in Threads : gpc[u] \notin {"out", "raised"}}) < MaxIds
    /\ gpc' = [gpc EXCEPT ![t] = "want"]
    /\ UNCHANGED <<clock, sequence, last_timestamp, lock, timestamp, gret, idlog>>

\* The wall clock moves by d milliseconds (d < 0: it is set back) and stays
\* within 0..hi.
ClockMove(d, hi) ==
    /\ clock + d \in 0..hi
    /\ clock' = clock + d

GenInit ==
    /\ sequence = 0
    /\ last_timestamp = -1
    /\ lock = None
    /\ gpc = [t \in Threads |-> "out"]
    /\ timestamp = [t \in Threads |-> -1]
    /\ gret = [t \in Threads |-> <<>>]
    /\ idlog = <<>>

\* init_db() on a new database file: three empty tables
DbInit ==
    /\ servers = {}
    /\ heartbeat_status = {}
    /\ ping_status = {}

NoRet == [kind |-> "none", server |-> <<>>, id |-> <<>>]
NoArg == [op |-> "", server_id |-> {}, server_name |-> "", ip |-> ""]

CallInit ==
    /\ pc = [c \in Threads |-> "idle"]
    /\ arg = [c \in Threads |-> NoArg]
    /\ now = [c \in Threads |-> 0]
    /\ row = [c \in Threads |-> <<>>]
    /\ ret = [c \in Threads |-> NoRet]
    /\ ncalls = 0

NoReply == [op |-> "none"]

\* No reporting client runs
NoAgent == [pc |-> "none"]

\* ping_worker has not started a cycle; no connection holds the write lock;
\* no reporting client runs
ProbeIdle ==
    /\ ppc = "sleep"
    /\ snap = <<>>
    /\ todo = <<>>
    /\ pnow = 0
    /\ pstart = 0
    /\ is_online = 0
    /\ pending = {}
    /\ dbwriter = None
    /\ plog = <<>>
    /\ nback = 0
    /\ busy = [c \in Threads |-> <<>>]
    /\ latency_ms = <<>>
    /\ shutdown = FALSE
    /\ ncycle = 0
    /\ agent = NoAgent

Init ==
    /\ clock = 0
    /\ GenInit
    /\ DbInit
    /\ CallInit
    /\ reply = NoReply
    /\ prev = NoReply
    /\ ProbeIdle

(***************************************************************************)
(* get_or_create_server and record_heartbeat, one caller c.  Every SQL     *)
(* statement (with its commit) is one step; a statement without ORDER BY   *)
(* that matches several rows returns any of them.                          *)
(* pc[c]: "idle", "by_id", "by_name", "update", "alloc" (in next_id for    *)
(* the new server), "reselect", "hb_now", "hb_alloc" (in next_id for the   *)
(* heartbeat), "done" (returned), "failed" (raised ValueError).            *)
(***************************************************************************)
Ops == {"get_or_create_server", "record_heartbeat"}

\* `if server_name:` / `if ip:`
Supplied(x) == x # ""
\* `if server_id:` (the argument is {} or {id})
SuppliedId(sid) == sid # {}

\* record_heartbeat goes on with whatever get_or_create_server returned
ReturnNoCheck(c, v) ==
    /\ row' = [row EXCEPT ![c] = v]
    /\ IF arg[c].op = "get_or_create_server"
       THEN /\ pc' = [pc EXCEPT ![c] = "done"]
            /\ ret' = [ret EXCEPT ![c] = [kind |-> "server", server |-> v, id |-> <<>>]]
       ELSE /\ pc' = [pc EXCEPT ![c] = "hb_now"]
            /\ UNCHANGED ret

\* get_or_create_server returns v (<<row>>, or <<>> for None) to its caller:
\* the operation itself, or record_heartbeat, which raises ValueError on
\* None and goes on otherwise.
Return(c, v) ==
    /\ row' = [row EXCEPT ![c] = v]
    /\ IF arg[c].op = "get_or_create_server"
       THEN /\ pc' = [pc EXCEPT ![c] = "done"]
            /\ ret' = [ret EXCEPT ![c] = [kind |-> "server", server |-> v, id |-> <<>>]]
       ELSE IF v = <<>>
       THEN /\ pc' = [pc EXCEPT ![c] = "failed"]
            /\ ret' = [ret EXCEPT ![c] = [kind |-> "ValueError", server |-> <<>>, id |-> <<>>]]
       ELSE /\ pc' = [pc EXCEPT ![c] = "hb_now"]
            /\ UNCHANGED ret

\* A caller starts get_or_create_server(sid, name, ip) or
\* record_heartbeat(sid, name, client_ip=ip); now = int(time.time()).
\* At most `max` operations are started.
StartCall(c, op, sid, name, ip, max) ==
    /\ pc[c] \in {"idle", "done", "failed"}
    /\ ncalls < max
    /\ ncalls' = ncalls + 1
    /\ arg' = [arg EXCEPT ![c] = [op |-> op, server_id |-> sid, server_name |-> name, ip |-> ip]]
    /\ now' = [now EXCEPT ![c] = TimeSeconds]
    /\ row' = [row EXCEPT ![c] = <<>>]
    /\ ret' = [ret EXCEPT ![c] = NoRet]
    /\ pc' = [pc EXCEPT ![c] = IF SuppliedId(sid) THEN "by_id" ELSE "by_name"]
    /\ UNCHANGED <<readVars, probeVars, clock, genVars, dbVars, agent>>

\* SELECT * FROM servers WHERE id = ?  (taken only if server_id is supplied)
ById(c) ==
    /\ pc[c] = "by_id"
    /\ LET found == {r \in servers : r.id \in arg[c].server_id}
       IN  IF found # {}
           THEN \E r \in found : Return(c, <<r>>)
           ELSE /\ pc' = [pc EXCEPT ![c] = "by_name"]
                /\ UNCHANGED <<row, ret>>
    /\ UNCHANGED <<readVars, probeVars, clock, genVars, dbVars, arg, now, ncalls, agent>>

\* ByName without the lookup: a supplied name always gets a new server
ByNameNoLookup(c) ==
    /\ pc[c] = "by_name"
    /\ IF Supplied(arg[c].server_name)
       THEN /\ pc' = [pc EXCEPT ![c] = "alloc"]
            /\ gpc' = [gpc EXCEPT ![c] = "want"]
            /\ UNCHANGED <<row, ret>>
       ELSE Return(c, <<>>) /\ UNCHANGED gpc
    /\ UNCHANGED <<readVars, probeVars, clock, sequence, last_timestamp, lock, timestamp, gret, idlog,
                   dbVars, arg, now, ncalls, agent>>

\* SELECT * FROM servers WHERE name = ?  and the branch on its result
ByName(c) ==
    /\ pc[c] = "by_name"
    /\ IF Supplied(arg[c].server_name)
       THEN LET found == {r \in servers : r.name = arg[c].server_name}
            IN  IF found # {}
                THEN \E r \in found :
                        IF Supplied(arg[c].ip)
                        THEN /\ pc' = [pc EXCEPT ![c] = "update"]
                             /\ row' = [row EXCEPT ![c] = <<r>>]
                             /\ UNCHANGED <<ret, gpc>>
                        ELSE Return(c, <<r>>) /\ UNCHANGED gpc
                ELSE /\ pc' = [pc EXCEPT ![c] = "alloc"]
                     /\ gpc' = [gpc EXCEPT ![c] = "want"]
                     /\ UNCHANGED <<row, ret>>
       ELSE Return(c, <<>>) /\ UNCHANGED gpc
    /\ UNCHANGED <<readVars, probeVars, clock, sequence, last_timestamp, lock, timestamp, gret, idlog,
                   dbVars, arg, now, ncalls, agent>>

\* UPDATE servers SET ip = ?, updated_at = ? WHERE id = ?; commit;
\* return dict(row): the row as it was fetched
Update(c) ==
    /\ pc[c] = "update"
    /\ dbwriter = None
    /\ servers' = {IF r.id = row[c][1].id
                   THEN [r EXCEPT !.ip = arg[c].ip, !.updated_at = now[c]]
                   ELSE r : r \in servers}
    /\ Return(c, row[c])
    /\ UNCHANGED <<readVars, probeVars, clock, genVars, heartbeat_status, ping_status, arg, now, ncalls, agent>>

\* The row of INSERT INTO servers (id, name, ip, created_at, updated_at)
NewServer(c) ==
    [id |-> gret[c][1], name |-> arg[c].server_name,
     ip |-> IF Supplied(arg[c].ip) THEN arg[c].ip ELSE "unknown",
     created_at |-> now[c], updated_at |-> now[c]]

\* new_id = id_gen.next_id() returned: INSERT INTO servers ...; commit
Insert(c) ==
    /\ pc[c] = "alloc"
    /\ dbwriter = None
    /\ gpc[c] = "out"
    /\ servers' = servers \cup {NewServer(c)}
    /\ pc' = [pc EXCEPT ![c] = "reselect"]
    /\ UNCHANGED <<readVars, probeVars, clock, genVars, heartbeat_status, ping_status, arg, now, row, ret, ncalls, agent>>

\* SELECT * FROM servers WHERE id = new_id; return dict(row)
Reselect(c) ==
    /\ pc[c] = "reselect"
    /\ \E r \in {q \in servers : q.id = gret[c][1]} : Return(c, <<r>>)
    /\ UNCHANGED <<readVars, probeVars, clock, genVars, dbVars, arg, now, ncalls, agent>>

\* cpu_load=0, mem_load=0: the report carries no load figures, and the
\* parameters keep their defaults.  A load is <<x>>, or <<>> for NULL.
DefaultLoad == <<0>>

\* record_heartbeat: now = int(time.time()); hb_id = id_gen.next_id()
HbNow(c) ==
    /\ pc[c] = "hb_now"
    /\ now' = [now EXCEPT ![c] = TimeSeconds]
    /\ pc' = [pc EXCEPT ![c] = "hb_alloc"]
    /\ gpc' = [gpc EXCEPT ![c] = "want"]
    /\ UNCHANGED <<readVars, probeVars, clock, sequence, last_timestamp, lock, timestamp, gret, idlog,
                   dbVars, arg, row, ret, ncalls, agent>>

\* A variant that keeps only the latest heartbeat of a server
HbInsertLatestOnly(c) ==
    /\ pc[c] = "hb_alloc"
    /\ dbwriter = None
    /\ gpc[c] = "out"
    /\ heartbeat_status' = {h \in heartbeat_status : h.server_id # row[c][1].id} \cup
          {[id |-> gret[c][1], server_id |-> row[c][1].id, ts |-> now[c],
            cpu_load |-> DefaultLoad, mem_load |-> DefaultLoad]}
    /\ ret' = [ret EXCEPT ![c] = [kind |-> "heartbeat", server |-> row[c], id |-> gret[c]]]
    /\ pc' = [pc EXCEPT ![c] = "done"]
    /\ UNCHANGED <<readVars, probeVars, clock, genVars, servers, ping_status, arg, now, row, ncalls, agent>>

\* INSERT INTO heartbeat_status ...; commit; return the two identifiers
HbInsert(c) ==
    /\ pc[c] = "hb_alloc"
    /\ dbwriter = None
    /\ gpc[c] = "out"
    /\ heartbeat_status' = heartbeat_status \cup
          {[id |-> gret[c][1], server_id |-> row[c][1].id, ts |-> now[c],
            cpu_load |-> DefaultLoad, mem_load |-> DefaultLoad]}
    /\ ret' = [ret EXCEPT ![c] = [kind |-> "heartbeat", server |-> row[c], id |-> gret[c]]]
    /\ pc' = [pc EXCEPT ![c] = "done"]
    /\ UNCHANGED <<readVars, probeVars, clock, genVars, servers, ping_status, arg, now, row, ncalls, agent>>

\* The arguments a caller may pass
SidChoices == {{}} \cup {{i} : i \in UnknownIds} \cup {{r.id} : r \in servers}
NameChoices == Names \cup {""}
IpChoices == Ips \cup {""}

\* The steps of get_or_create_server for the callers in C, which start at
\* most `max` operations out of O.  The clock moves forward in steps of a
\* second and is not set back here, so that next_id() does not raise.
GcsSteps(C, O, max) ==
    \/ \E c \in C, op \in O, sid \in SidChoices, name \in NameChoices, ip \in IpChoices :
          StartCall(c, op, sid, name, ip, max)
    \/ \E c \in C : ById(c)
    \/ \E c \in C : ByName(c)
    \/ \E c \in C : Update(c)
    \/ \E c \in C : Insert(c)
    \/ \E c \in C : Reselect(c)
    \/ (\E t \in C : GenRead(t)) /\ UNCHANGED <<dbVars, callVars, readVars, probeVars, agent>>
    \/ (\E t \in C : GenCompose(t)) /\ UNCHANGED <<dbVars, callVars, readVars, probeVars, agent>>
    \/ ClockMove(1000, 1000 * MaxSec) /\ UNCHANGED <<genVars, dbVars, callVars, readVars, probeVars, agent>>

\* The steps of record_heartbeat after get_or_create_server has returned
HbSteps(C) ==
    \/ \E c \in C : HbNow(c)
    \/ \E c \in C : HbInsert(c)

\* The wait of next_id() for the next millisecond
SpinSteps(C) ==
    (\E t \in C : GenSpin(t)) /\ UNCHANGED <<dbVars, callVars, readVars, probeVars, agent>>

\* Callers running both operations concurrently
RegNext ==
    \/ GcsSteps(Threads, Ops, MaxCalls)
    \/ HbSteps(Threads)
    \/ SpinSteps(Threads)

SpecReg == Init /\ [][RegNext]_vars

\* One caller of get_or_create_server, one call at a time.  (Two names make
\* at most two identifiers, which is short of the roll-over of the sequence:
\* the wait loop of next_id() is not reached.)
SeqNext == GcsSteps({"t1"}, {"get_or_create_server"}, MaxSeqCalls)

SpecSeq == Init /\ [][SeqNext]_vars

\* One caller of record_heartbeat, one call at a time
HbNext ==
    \/ GcsSteps({"t1"}, {"record_heartbeat"}, MaxCalls)
    \/ HbSteps({"t1"})
    \/ SpinSteps({"t1"})

SpecHb == Init /\ [][HbNext]_vars

(***************************************************************************)
(* The identifier specification: threads calling id_gen.next_id().         *)
(***************************************************************************)
IdNext ==
    \/ (\E t \in Threads : CallNextId(t)) /\ UNCHANGED <<dbVars, callVars, readVars, probeVars, agent>>
    \/ (\E t \in Threads : GenRead(t)) /\ UNCHANGED <<dbVars, callVars, readVars, probeVars, agent>>
    \/ (\E t \in Threads : GenSpin(t)) /\ UNCHANGED <<dbVars, callVars, readVars, probeVars, agent>>
    \/ (\E t \in Threads : GenCompose(t)) /\ UNCHANGED <<dbVars, callVars, readVars, probeVars, agent>>
    \/ (\E d \in {1, -1} : ClockMove(d, MaxClock))
          /\ UNCHANGED <<genVars, dbVars, callVars, readVars, probeVars, agent>>

SpecId == Init /\ [][IdNext]_vars

\* The same with a scheduler that lets a thread run that is in the wait
\* loop of next_id() or about to return from it
SpecIdFair ==
    /\ SpecId
    /\ \A t \in Threads :
          /\ WF_vars(GenSpin(t) /\ UNCHANGED <<dbVars, callVars, readVars, probeVars, agent>>)
          /\ WF_vars(GenCompose(t) /\ UNCHANGED <<dbVars, callVars, readVars, probeVars, agent>>)

(***************************************************************************)
(* The read-side queries.  Each is a function of the tables and of         *)
(* now = int(time.time()); a query is one step and leaves the tables alone.*)
(***************************************************************************)
RECURSIVE SumOnline(_)
\* SUM(is_online) over a set of ping rows
SumOnline(S) ==
    IF S = {} THEN 0
    ELSE LET p == CHOOSE x \in S : TRUE
         IN  p.is_online + SumOnline(S \ {p})

\* WHERE server_id = ? AND ts >= ?
PingsSince(sid, t) == {p \in ping_status : p.server_id = sid /\ p.ts >= t}
HeartbeatsSince(sid, t) == {h \in heartbeat_status : h.server_id = sid /\ h.ts >= t}

\* ... ORDER BY ts DESC LIMIT 1: the rows fetchone() may return
LatestPings(sid, t) ==
    {p \in PingsSince(sid, t) : \A q \in PingsSince(sid, t) : q.ts <= p.ts}

\* A variant that takes any success of the short window for "ok", whatever
\* came after it
PingHealthAnyRecent(sid, nw, latest) ==
    IF Cardinality({p \in PingsSince(sid, nw - PingOkWindow) : p.is_online = 1}) > 0 THEN "ok"
    ELSE IF Cardinality({p \in PingsSince(sid, nw - PingWarnWindow) : p.is_online = 1}) > 0
         THEN "warn"
         ELSE "down"

\* ping_health, given what fetchone() returned (<<row>> or <<>>)
PingHealth(sid, nw, latest) ==
    IF latest # <<>> /\ latest[1].is_online = 1 THEN "ok"
    ELSE IF Cardinality({p \in PingsSince(sid, nw - PingWarnWindow) : p.is_online = 1}) > 0
         THEN "warn"
         ELSE "down"

\* A variant that counts the heartbeats of every server
HeartbeatHealthAnyServer(sid, nw) ==
    IF Cardinality({h \in heartbeat_status : h.ts >= nw - HeartbeatWindow}) > 0
    THEN "ok" ELSE "down"

\* heartbeat_health
HeartbeatHealth(sid, nw) ==
    IF Cardinality(HeartbeatsSince(sid, nw - HeartbeatWindow)) > 0 THEN "ok" ELSE "down"

\* get_server_health_status(sid)
HealthQuery(sid) ==
    /\ \E latest \in IF LatestPings(sid, TimeSeconds - PingOkWindow) = {}
                     THEN {<<>>}
                     ELSE {<<p>> : p \in LatestPings(sid, TimeSeconds - PingOkWindow)} :
          reply' = [op |-> "health", server_id |-> sid,
                    value |-> [ping_health |-> PingHealth(sid, TimeSeconds, latest),
                               heartbeat_health |-> HeartbeatHealth(sid, TimeSeconds)]]
    /\ UNCHANGED <<clock, genVars, dbVars, callVars, probeVars, agent>>

\* get_24h_timeline: slot i (0-based) of `slots`
SlotDuration(slots) == DaySeconds \div slots
SlotStart(nw, slots, i) == (nw - DaySeconds) + i * SlotDuration(slots)
SlotEnd(nw, slots, i) == SlotStart(nw, slots, i) + SlotDuration(slots)

\* WHERE server_id = ? AND ts >= ? AND ts < ?
PingsIn(sid, lo, hi) == {p \in ping_status : p.server_id = sid /\ p.ts >= lo /\ p.ts < hi}
HeartbeatsIn(sid, lo, hi) ==
    {h \in heartbeat_status : h.server_id = sid /\ h.ts >= lo /\ h.ts < hi}

\* ping_status of a slot from AVG(is_online) over the rows R of the slot:
\* the average is NULL without rows; avg >= 0.8 and avg > 0 are compared
\* as fractions
PingState(R) ==
    IF R = {} THEN 0
    ELSE IF 10 * SumOnline(R) >= 8 * Cardinality(R) THEN 1
    ELSE IF SumOnline(R) > 0 THEN -1
    ELSE 0

\* heartbeat_status of a slot from COUNT(*)
HeartbeatState(R) == IF Cardinality(R) > 0 THEN 1 ELSE 0

\* The list get_24h_timeline(sid, slots) returns (position i+1 is slot i)
Timeline(sid, nw, slots) ==
    [k \in 1..slots |->
        [ping |-> PingState(PingsIn(sid, SlotStart(nw, slots, k - 1),
                                         SlotEnd(nw, slots, k - 1))),
         heartbeat |-> HeartbeatState(HeartbeatsIn(sid, SlotStart(nw, slots, k - 1),
                                                        SlotEnd(nw, slots, k - 1)))]]

\* A variant that deletes the heartbeats older than the window it has read
TimelineQueryPurging(sid, slots) ==
    /\ reply' = [op |-> "timeline", server_id |-> sid, slots |-> slots,
                 value |-> Timeline(sid, TimeSeconds, slots)]
    /\ heartbeat_status' = {h \in heartbeat_status : h.ts >= TimeSeconds - DaySeconds}
    /\ UNCHANGED <<clock, genVars, servers, ping_status, callVars, probeVars, agent>>

\* get_24h_timeline(sid, slots)
TimelineQuery(sid, slots) ==
    /\ reply' = [op |-> "timeline", server_id |-> sid, slots |-> slots,
                 value |-> Timeline(sid, TimeSeconds, slots)]
    /\ UNCHANGED <<clock, genVars, dbVars, callVars, probeVars, agent>>

(***************************************************************************)
(* get_server_resource_series.  slot_duration = total_seconds / points is  *)
(* a binary64 number: the quotient 86400 / points rounded to 53            *)
(* significant bits.  The model keeps the exact quotient and the direction *)
(* of that rounding, which decides `(ts - start_time) // slot_duration`    *)
(* where the exact quotient is a whole number.                             *)
(***************************************************************************)
RECURSIVE Pow2Mod(_, _)
\* 2^k modulo m
Pow2Mod(k, m) == IF k = 0 THEN 1 % m ELSE (2 * Pow2Mod(k - 1, m)) % m

RECURSIVE Log2Floor(_, _)
\* The largest e with 2^e * points <= n  (points <= n)
Log2Floor(n, points) == IF 2 * points <= n THEN 1 + Log2Floor(n, 2 * points) ELSE 0

\* The sign of (total_seconds / points as binary64) - (86400 / points):
\* the quotient is rounded to a multiple of 2^(e-52), to the nearest one
\* and to the even one on a tie.
SlotDurationError(points) ==
    LET k == 52 - Log2Floor(DaySeconds, points)
        n == ((DaySeconds % (2 * points)) * Pow2Mod(k, 2 * points)) % (2 * points)
        r == n % points
    IN  IF r = 0 THEN 0
        ELSE IF 2 * r < points THEN -1
        ELSE IF 2 * r > points THEN 1
        ELSE IF n >= points THEN 1 ELSE -1

\* int((ts - start_time) // slot_duration) for d = ts - start_time >= 0: the
\* floor of d / slot_duration, which is one less than the floor of the exact
\* d * points / 86400 where that is whole and slot_duration is rounded up
FloorDiv(d, points) ==
    IF (d * points) % DaySeconds = 0 /\ d > 0 /\ SlotDurationError(points) = 1
    THEN (d * points) \div DaySeconds - 1
    ELSE (d * points) \div DaySeconds

\* idx of a row: `if idx >= points: idx = points - 1`  (idx < 0 does not
\* occur: the rows have ts >= start_time)
BucketIndex(ts, nw, points) ==
    IF FloorDiv(ts - (nw - DaySeconds), points) >= points
    THEN points - 1
    ELSE FloorDiv(ts - (nw - DaySeconds), points)

\* rows: SELECT ts, cpu_load, mem_load ... WHERE server_id = ? AND ts >= ?
SeriesRows(sid, nw) == HeartbeatsSince(sid, nw - DaySeconds)

RECURSIVE SumLoads(_, _)
\* cpu_sum / mem_sum of a bucket: the sum of the non-NULL loads f of rows R
SumLoads(R, f) ==
    IF R = {} THEN 0
    ELSE LET h == CHOOSE x \in R : TRUE
         IN  (IF h[f] # <<>> THEN h[f][1] ELSE 0) + SumLoads(R \ {h}, f)

\* A variant that counts the rows of the bucket, with or without a value
CountLoadsAllRows(R, f) == Cardinality(R)

\* cpu_count / mem_count of a bucket
CountLoads(R, f) == Cardinality({h \in R : h[f] # <<>>})

RECURSIVE Gcd(_, _)
Gcd(a, b) == IF b = 0 THEN a ELSE Gcd(b, a % b)

\* A variant that yields 0 for a bucket without values
AverageOrZero(sum, count) ==
    IF count > 0
    THEN << [num |-> sum \div Gcd(sum, count), den |-> count \div Gcd(sum, count)] >>
    ELSE << [num |-> 0, den |-> 1] >>

\* sum / count as a fraction in lowest terms, <<>> for None
Average(sum, count) ==
    IF count > 0
    THEN << [num |-> sum \div Gcd(sum, count), den |-> count \div Gcd(sum, count)] >>
    ELSE <<>>

\* slot_start = start_time + int(i * slot_duration)
SeriesStart(nw, points, i) == (nw - DaySeconds) + (i * DaySeconds) \div points

\* The list get_server_resource_series(sid, points) returns
Series(sid, nw, points) ==
    LET idx == [h \in SeriesRows(sid, nw) |-> BucketIndex(h.ts, nw, points)]
    IN  [k \in 1..points |->
            LET R == {h \in SeriesRows(sid, nw) : idx[h] = k - 1}
            IN  [ts |-> SeriesStart(nw, points, k - 1),
                 cpu |-> Average(SumLoads(R, "cpu_load"), CountLoads(R, "cpu_load")),
                 mem |-> Average(SumLoads(R, "mem_load"), CountLoads(R, "mem_load"))]]

\* get_server_resource_series(sid, points)
SeriesQuery(sid, points) ==
    /\ reply' = [op |-> "series", server_id |-> sid, slots |-> points,
                 value |-> Series(sid, TimeSeconds, points)]
    /\ UNCHANGED <<clock, genVars, dbVars, callVars, probeVars, agent>>

(***************************************************************************)
(* The aggregation specification.  The queries are applied to the tables a *)
(* collector can have filled: two registered servers; of the first, up to  *)
(* MaxPings ping rows (one probe cycle writes one row per server, and the  *)
(* cycles are 60 s or more apart) and up to MaxHbs heartbeat rows, at ages *)
(* around the limits the queries use; of the second, one row of each kind  *)
(* or none at all.                                                         *)
(***************************************************************************)
\* now, in seconds: late enough for a row older than the 24 h window
AggNow == 100 * 1000

\* Ages (now - ts, in seconds) of the rows of the first server
PingAges == {0, 1, 120, 121, 600, 601, DaySeconds, DaySeconds + 1}
HbAges == {1, 120, 121, DaySeconds + 1}

\* src/main.py:20  await asyncio.sleep(60) between two probe cycles
CycleSleep == 60

\* The bucket counts asked for: the default, a divisor of 86400 other than
\* it, and a number that does not divide 86400
SlotChoices == {DefaultSlots, 1, 7}

IdX == SnowflakeId(0, 0)
IdY == SnowflakeId(0, 1)

\* The servers table after "X" and "Y" have registered
TwoServers ==
    {[id |-> IdX, name |-> "X", ip |-> "a", created_at |-> 0, updated_at |-> 0],
     [id |-> IdY, name |-> "Y", ip |-> "b", created_at |-> 0, updated_at |-> 0]}

\* Rows of the event tables.  Their identifiers are distinct; no query reads
\* them.
PingRow(sid, age, online) ==
    [id |-> 4 * age + (IF sid = IdX THEN 0 ELSE 1), server_id |-> sid,
     ts |-> AggNow - age, is_online |-> online]
HbRow(sid, age) ==
    [id |-> 4 * age + (IF sid = IdX THEN 2 ELSE 3), server_id |-> sid, ts |-> AggNow - age,
     cpu_load |-> DefaultLoad, mem_load |-> DefaultLoad]

RECURSIVE SubsetsUpTo(_, _)
\* The subsets of S with at most k elements
SubsetsUpTo(S, k) ==
    IF k = 0 THEN {{}}
    ELSE LET R == SubsetsUpTo(S, k - 1)
         IN  R \cup {T \cup {x} : T \in R, x \in S}

\* Two rows of one server come from different probe cycles
CyclesApart(P) ==
    \A p, q \in P : p # q => (p.ts - q.ts >= CycleSleep \/ q.ts - p.ts >= CycleSleep)

AggInit ==
    /\ clock = 1000 * AggNow
    /\ sequence = 1
    /\ last_timestamp = 0
    /\ lock = None
    /\ gpc = [t \in Threads |-> "out"]
    /\ timestamp = [t \in Threads |-> -1]
    /\ gret = [t \in Threads |-> <<>>]
    /\ idlog = << <<IdX>>, <<IdY>> >>
    /\ CallInit
    /\ reply = NoReply
    /\ prev = NoReply
    /\ ProbeIdle
    /\ servers = TwoServers
    /\ \E P \in SubsetsUpTo({PingRow(IdX, a, o) : a \in PingAges, o \in {0, 1}}, MaxPings),
          H \in SubsetsUpTo({HbRow(IdX, a) : a \in HbAges}, MaxHbs),
          other \in BOOLEAN :
          /\ CyclesApart(P)
          /\ ping_status = P \cup (IF other THEN {PingRow(IdY, 1, 1)} ELSE {})
          /\ heartbeat_status = H \cup (IF other THEN {HbRow(IdY, 1)} ELSE {})

AggNext ==
    \/ (\E r \in servers : HealthQuery(r.id)) /\ UNCHANGED prev
    \/ (\E r \in servers, slots \in SlotChoices : TimelineQuery(r.id, slots)) /\ UNCHANGED prev

SpecAgg == AggInit /\ [][AggNext]_vars

(***************************************************************************)
(* The resource specification: get_server_resource_series and              *)
(* get_24h_timeline run again and again, at one `now`, over the heartbeat  *)
(* rows agents can have reported: up to MaxRes rows of the first server    *)
(* (an agent reports at most once a second), with and without load         *)
(* figures, at ages around the bucket limits, and one row of the second    *)
(* server.                                                                 *)
(***************************************************************************)
\* Ages of the rows: now; inside the newest bucket; in the bucket before it
\* (for 60 points); at the middle of the window; at its start; before it
ResAges == {0, 1, DaySeconds \div DefaultPoints + 1, DaySeconds \div 2,
            DaySeconds, DaySeconds + 1}

\* <<cpu_load, mem_load>> of a row
LoadChoices == {<< <<50>>, <<30>> >>, << <<70>>, <<>> >>, << <<>>, <<10>> >>}

\* The point counts asked for: the default, and one by which 86400 is not
\* divisible.  For both, i * slot_duration rounds to a number whose integer
\* part is that of the exact product (SeriesStart).
PointChoices == {DefaultPoints, 14}

ResRow(sid, age, l) ==
    [id |-> 4 * age + (IF sid = IdX THEN 2 ELSE 3), server_id |-> sid, ts |-> AggNow - age,
     cpu_load |-> l[1], mem_load |-> l[2]]

\* One report per second and server
OnePerSecond(H) == \A h, g \in H : h.ts = g.ts => h = g

ResInit ==
    /\ clock = 1000 * AggNow
    /\ sequence = 1
    /\ last_timestamp = 0
    /\ lock = None
    /\ gpc = [t \in Threads |-> "out"]
    /\ timestamp = [t \in Threads |-> -1]
    /\ gret = [t \in Threads |-> <<>>]
    /\ idlog = << <<IdX>>, <<IdY>> >>
    /\ CallInit
    /\ reply = NoReply
    /\ prev = NoReply
    /\ ProbeIdle
    /\ servers = TwoServers
    /\ ping_status = {}
    /\ \E H \in SubsetsUpTo({ResRow(IdX, a, l) : a \in ResAges, l \in LoadChoices}, MaxRes) :
          /\ OnePerSecond(H)
          /\ heartbeat_status = H \cup {ResRow(IdY, 1, << <<90>>, <<90>> >>)}

ResNext ==
    \/ (\E r \in servers, points \in PointChoices : SeriesQuery(r.id, points)) /\ prev' = reply
    \/ (\E r \in servers : TimelineQuery(r.id, DefaultSlots)) /\ prev' = reply

SpecRes == ResInit /\ [][ResNext]_vars

(***************************************************************************)
(* ping_and_record, one probe cycle, run by the thread Prober.             *)
(* ppc: "sleep" (no cycle yet), "probe" (the ping of Head(todo) is         *)
(* running), "alloc" (in next_id() of the try block), "except_alloc" (in   *)
(* next_id() of the except block), "commit", "close" (committed),          *)
(* "finished" (returned), "aborted" (an exception left the function),      *)
(* "crashed" (the process died).                                           *)
(* Rows inserted on the cycle's connection stay in `pending`, invisible to *)
(* other connections, until conn.commit(); the first INSERT takes the      *)
(* write lock of the database file, which the commit gives back.  A        *)
(* connection that is dropped without commit loses its pending rows.       *)
(***************************************************************************)
Prober == "t1"

\* What subprocess.run(...) does: returns exit status 0 with an output that
\* has a time ("ok") or has none ("ok_notime"), returns another status, or
\* raises (TimeoutExpired after 2 s, or another exception)
Outcomes == {"ok", "ok_notime", "fail", "fault"}

\* The time in ms a ping prints, as the text after "time=" or "time<"
PingTimes == {"12.3"}

\* float(match.group(1)) for a text of PingTimes, in tenths of a ms
Float(text) == CASE text = "12.3" -> 123

\* A variant that parses the output whatever the exit status is
ParsedLatencyAnyStatus(o, text) == IF o \in {"ok", "fail"} THEN <<Float(text)>> ELSE <<>>

\* latency_ms after the try block's parsing: None unless the exit status is
\* 0 and re.search(r'time[=<]([0-9.]+)\s*ms', output) matches
ParsedLatency(o, text) == IF o = "ok" THEN <<Float(text)>> ELSE <<>>

RECURSIVE SortedByCreation(_)
\* SELECT * FROM servers ORDER BY created_at DESC: the lists it may return
SortedByCreation(S) ==
    IF S = {} THEN {<<>>}
    ELSE UNION {{<<r>> \o rest : rest \in SortedByCreation(S \ {r})} :
                   r \in {x \in S : \A y \in S : y.created_at <= x.created_at}}

\* servers = get_all_servers(); `if not servers: return`; conn = get_db();
\* now = int(time.time()); the first ping is started
CycleStart ==
    /\ ppc = "sleep"
    /\ \E list \in SortedByCreation(servers) :
          /\ snap' = list
          /\ todo' = list
          /\ ppc' = IF list = <<>> THEN "finished" ELSE "probe"
    /\ pnow' = TimeSeconds
    /\ pstart' = clock
    /\ UNCHANGED <<clock, genVars, dbVars, callVars, readVars,
                   is_online, pending, dbwriter, plog, nback, busy,
                   latency_ms, shutdown, ncycle, agent>>

\* A second passes while the ping runs; it runs for 2 s at most
ProbeTick(hi) ==
    /\ ppc = "probe"
    /\ clock - pstart < 1000 * ProbeTimeout
    /\ ClockMove(1000, hi)
    /\ UNCHANGED <<genVars, dbVars, callVars, readVars, probeVars, agent>>

\* subprocess.run returns or raises; then ping_id = id_gen.next_id() is
\* called, in the try block or in the except block
ProbeDone(o) ==
    /\ ppc = "probe"
    /\ is_online' = IF o \in {"ok", "ok_notime"} THEN 1 ELSE 0
    /\ \E text \in PingTimes : latency_ms' = ParsedLatency(o, text)
    /\ ppc' = IF o = "fault" THEN "except_alloc" ELSE "alloc"
    /\ plog' = Append(plog, <<Head(todo).id, o>>)
    /\ gpc' = [gpc EXCEPT ![Prober] = "want"]
    /\ UNCHANGED <<clock, sequence, last_timestamp, lock, timestamp, gret, idlog,
                   dbVars, callVars, readVars,
                   snap, todo, pnow, pstart, pending, dbwriter, nback, busy,
                   shutdown, ncycle, agent>>

\* The row of INSERT INTO ping_status (id, server_id, ts, is_online, ...)
PingInsert(online, latency) ==
    [id |-> gret[Prober][1], server_id |-> Head(todo).id, ts |-> pnow, is_online |-> online,
     latency_ms |-> latency]

\* After an INSERT: the loop goes on with the next server, or ends
NextServer ==
    /\ todo' = Tail(todo)
    /\ ppc' = IF Tail(todo) = <<>> THEN "commit" ELSE "probe"
    /\ pstart' = clock

\* try: next_id() has returned; INSERT ... (ping_id, server["id"], now,
\* is_online, latency_ms)
Record ==
    /\ ppc = "alloc"
    /\ gpc[Prober] = "out"
    /\ dbwriter \in {None, Prober}
    /\ pending' = pending \cup {PingInsert(is_online, latency_ms)}
    /\ dbwriter' = Prober
    /\ NextServer
    /\ UNCHANGED <<clock, genVars, dbVars, callVars, readVars,
                   snap, pnow, is_online, plog, nback, busy,
                   latency_ms, shutdown, ncycle, agent>>

\* try: next_id() has raised; except Exception: ping_id = id_gen.next_id()
AllocRaised ==
    /\ ppc = "alloc"
    /\ gpc[Prober] = "raised"
    /\ ppc' = "except_alloc"
    /\ plog' = [plog EXCEPT ![Len(plog)] = <<Head(todo).id, "alloc_raised">>]
    /\ gpc' = [gpc EXCEPT ![Prober] = "want"]
    /\ UNCHANGED <<clock, sequence, last_timestamp, lock, timestamp, gret, idlog,
                   dbVars, callVars, readVars,
                   snap, todo, pnow, pstart, is_online, pending, dbwriter, nback, busy,
                   latency_ms, shutdown, ncycle, agent>>

\* A variant that goes on with the next server without a row for this one
RecordFailedSkips ==
    /\ ppc = "except_alloc"
    /\ gpc[Prober] = "out"
    /\ NextServer
    /\ UNCHANGED <<clock, genVars, dbVars, callVars, readVars,
                   snap, pnow, is_online, pending, dbwriter, plog, nback, busy,
                   latency_ms, shutdown, ncycle, agent>>

\* except: next_id() has returned; INSERT ... (ping_id, server["id"], now, 0, None)
RecordFailed ==
    /\ ppc = "except_alloc"
    /\ gpc[Prober] = "out"
    /\ dbwriter \in {None, Prober}
    /\ pending' = pending \cup {PingInsert(0, <<>>)}
    /\ dbwriter' = Prober
    /\ NextServer
    /\ UNCHANGED <<clock, genVars, dbVars, callVars, readVars,
                   snap, pnow, is_online, plog, nback, busy,
                   latency_ms, shutdown, ncycle, agent>>

\* except: next_id() has raised: the exception leaves ping_and_record (the
\* worker prints it); the connection is dropped with its pending rows
Abort ==
    /\ ppc = "except_alloc"
    /\ gpc[Prober] = "raised"
    /\ ppc' = "aborted"
    /\ pending' = {}
    /\ dbwriter' = None
    /\ UNCHANGED <<clock, genVars, dbVars, callVars, readVars,
                   snap, todo, pnow, pstart, is_online, plog, nback, busy,
                   latency_ms, shutdown, ncycle, agent>>

\* conn.commit()
Commit ==
    /\ ppc = "commit"
    /\ ping_status' = ping_status \cup pending
    /\ pending' = {}
    /\ dbwriter' = None
    /\ ppc' = "close"
    /\ UNCHANGED <<clock, genVars, servers, heartbeat_status, callVars, readVars,
                   snap, todo, pnow, pstart, is_online, plog, nback, busy,
                   latency_ms, shutdown, ncycle, agent>>

\* conn.close(); return
Close ==
    /\ ppc = "close"
    /\ ppc' = "finished"
    /\ UNCHANGED <<clock, genVars, dbVars, callVars, readVars,
                   snap, todo, pnow, pstart, is_online, pending, dbwriter, plog, nback, busy,
                   latency_ms, shutdown, ncycle, agent>>

\* A variant in which any of the uncommitted rows survive the crash
CrashKeepsSome ==
    /\ ppc \in {"probe", "alloc", "except_alloc", "commit", "close"}
    /\ ppc' = "crashed"
    /\ \E kept \in SUBSET pending : ping_status' = ping_status \cup kept
    /\ pending' = {}
    /\ dbwriter' = None
    /\ UNCHANGED <<clock, genVars, servers, heartbeat_status, callVars, readVars,
                   snap, todo, pnow, pstart, is_online, plog, nback, busy,
                   latency_ms, shutdown, ncycle, agent>>

\* The process dies during the cycle: the uncommitted transaction is rolled
\* back when the file is opened next
Crash ==
    /\ ppc \in {"probe", "alloc", "except_alloc", "commit", "close"}
    /\ ppc' = "crashed"
    /\ pending' = {}
    /\ dbwriter' = None
    /\ UNCHANGED <<clock, genVars, dbVars, callVars, readVars,
                   snap, todo, pnow, pstart, is_online, plog, nback, busy,
                   latency_ms, shutdown, ncycle, agent>>

\* The wait loop of next_id() lasts until the clock has passed last_timestamp
SpinTick(hi) ==
    /\ \E t \in Threads : gpc[t] = "spin"
    /\ clock <= last_timestamp
    /\ ClockMove(last_timestamp + 1 - clock, hi)
    /\ UNCHANGED <<genVars, dbVars, callVars, readVars, probeVars, agent>>

\* The wall clock is set back by a second (the time a running ping has
\* left does not change: pstart moves with the clock)
SetBack ==
    /\ nback < MaxSetBacks
    /\ nback' = nback + 1
    /\ ClockMove(-1000, clock)
    /\ pstart' = pstart - 1000
    /\ UNCHANGED <<genVars, dbVars, callVars, readVars,
                   ppc, snap, todo, pnow, is_online, pending, dbwriter, plog, busy,
                   latency_ms, shutdown, ncycle, agent>>

(***************************************************************************)
(* The probe specification: one probe cycle over NProbed servers, with     *)
(* every outcome of every ping, a clock that may be set back, and a crash  *)
(* at any point.  The servers registered (each with its first heartbeat)   *)
(* in the seconds 0, 1, ... after the start; the cycle starts a minute     *)
(* later.  Time passes while a ping runs and in the wait loop of next_id.  *)
(***************************************************************************)
ProbeNames == <<"X", "Y", "Z", "W", "V">>

\* The server registered in second i-1, and its first heartbeat
ProbedServer(i) ==
    [id |-> SnowflakeId(1000 * (i - 1), 0), name |-> ProbeNames[i], ip |-> "a",
     created_at |-> i - 1, updated_at |-> i - 1]
FirstHeartbeat(i) ==
    [id |-> SnowflakeId(1000 * (i - 1), 1), server_id |-> SnowflakeId(1000 * (i - 1), 0),
     ts |-> i - 1, cpu_load |-> DefaultLoad, mem_load |-> DefaultLoad]

\* The state a minute after n servers have registered
ProbeInit(n) ==
    /\ clock = 1000 * CycleSleep
    /\ sequence = 1
    /\ last_timestamp = 1000 * (n - 1)
    /\ lock = None
    /\ gpc = [t \in Threads |-> "out"]
    /\ timestamp = [t \in Threads |-> -1]
    /\ gret = [t \in Threads |-> <<>>]
    /\ idlog = [k \in 1..(2 * n) |-> <<SnowflakeId(1000 * ((k - 1) \div 2), (k - 1) % 2)>>]
    /\ CallInit
    /\ reply = NoReply
    /\ prev = NoReply
    /\ ProbeIdle
    /\ servers = {ProbedServer(i) : i \in 1..n}
    /\ heartbeat_status = {FirstHeartbeat(i) : i \in 1..n}
    /\ ping_status = {}

\* The latest clock reading: every ping may take its 2 s
ProbeEnd(n) == 1000 * (CycleSleep + n * ProbeTimeout) + n

\* The steps of the cycle over n servers whose pings end with an outcome
\* of O
CycleSteps(n, O) ==
    \/ CycleStart
    \/ ProbeTick(ProbeEnd(n))
    \/ \E o \in O : ProbeDone(o)
    \/ Record
    \/ AllocRaised
    \/ RecordFailed
    \/ Abort
    \/ Commit
    \/ Close
    \/ GenRead(Prober) /\ UNCHANGED <<dbVars, callVars, readVars, probeVars, agent>>
    \/ GenSpin(Prober) /\ UNCHANGED <<dbVars, callVars, readVars, probeVars, agent>>
    \/ GenCompose(Prober) /\ UNCHANGED <<dbVars, callVars, readVars, probeVars, agent>>
    \/ SpinTick(ProbeEnd(n))

ProbeNext ==
    \/ CycleSteps(NProbed, Outcomes)
    \/ Crash
    \/ SetBack

SpecProbe == ProbeInit(NProbed) /\ [][ProbeNext]_vars

(***************************************************************************)
(* ping_worker and lifespan (src/main.py): the task that calls             *)
(* ping_and_record() and then sleeps for a minute, for ever, and its       *)
(* cancellation at shutdown.  The task runs on the event loop; it is       *)
(* suspended only in `await asyncio.sleep(60)` (ping_and_record has no     *)
(* await inside), and only while it is suspended can the loop run the      *)
(* shutdown part of lifespan.  More values of ppc: "asleep" (in the        *)
(* sleep), "cancelled" (CancelledError has left ping_worker: the task is   *)
(* over), "stopped" (another exception has left it).                       *)
(***************************************************************************)
\* The iterations of the `while True` loop that are followed
MaxCycles == 2

\* await ping_and_record() has returned; await asyncio.sleep(60) begins
Returned ==
    /\ ppc = "finished"
    /\ ppc' = "asleep"
    /\ UNCHANGED <<clock, genVars, dbVars, callVars, readVars,
                   snap, todo, pnow, pstart, is_online, pending, dbwriter, plog, nback, busy,
                   latency_ms, shutdown, ncycle, agent>>

\* A variant in which the exception leaves ping_worker
CaughtStops ==
    /\ ppc = "aborted"
    /\ ppc' = "stopped"
    /\ UNCHANGED <<clock, genVars, dbVars, callVars, readVars,
                   snap, todo, pnow, pstart, is_online, pending, dbwriter, plog, nback, busy,
                   latency_ms, shutdown, ncycle, agent>>

\* except Exception as e: print(...); await asyncio.sleep(60) begins
Caught ==
    /\ ppc = "aborted"
    /\ ppc' = "asleep"
    /\ UNCHANGED <<clock, genVars, dbVars, callVars, readVars,
                   snap, todo, pnow, pstart, is_online, pending, dbwriter, plog, nback, busy,
                   latency_ms, shutdown, ncycle, agent>>

\* The sleep is over a minute later: the next iteration calls
\* ping_and_record()
WakeUp(hi) ==
    /\ ppc = "asleep"
    /\ ~shutdown
    /\ ncycle < MaxCycles
    /\ ClockMove(1000 * CycleSleep, hi)
    /\ ppc' = "sleep"
    /\ ncycle' = ncycle + 1
    /\ plog' = <<>>
    /\ UNCHANGED <<genVars, dbVars, callVars, readVars,
                   snap, todo, pnow, pstart, is_online, pending, dbwriter, nback, busy,
                   latency_ms, shutdown, agent>>

\* The first step of the task, or the step after the sleep: servers =
\* get_all_servers() ... (a task cancelled before its first step never runs)
Call ==
    /\ ~shutdown
    /\ CycleStart

\* A call of sqlite3 raises (the file is locked by another process, the
\* disk is full, ...) in get_all_servers() or get_db(), or in conn.commit():
\* the exception leaves ping_and_record, the transaction is rolled back
StorageFault ==
    /\ ppc \in {"sleep", "commit"}
    /\ ~shutdown
    /\ ppc' = "aborted"
    /\ pending' = {}
    /\ dbwriter' = None
    /\ UNCHANGED <<clock, genVars, dbVars, callVars, readVars,
                   snap, todo, pnow, pstart, is_online, plog, nback, busy,
                   latency_ms, shutdown, ncycle, agent>>

\* lifespan after its yield: task.cancel(), while the task is suspended
\* (in its sleep, or created and not yet run)
Shutdown ==
    /\ ~shutdown
    /\ ppc = "asleep" \/ (ppc = "sleep" /\ ncycle = 0)
    /\ shutdown' = TRUE
    /\ UNCHANGED <<clock, genVars, dbVars, callVars, readVars,
                   ppc, snap, todo, pnow, pstart, is_online, pending, dbwriter, plog, nback, busy,
                   latency_ms, ncycle, agent>>

\* A variant in which the worker's handler swallows the cancellation and
\* the loop goes on with the next iteration
CancelledSwallowed ==
    /\ shutdown
    /\ ppc \in {"asleep", "sleep"}
    /\ ncycle < MaxCycles
    /\ ppc' = "sleep"
    /\ ncycle' = ncycle + 1
    /\ UNCHANGED <<clock, genVars, dbVars, callVars, readVars,
                   snap, todo, pnow, pstart, is_online, pending, dbwriter, plog, nback, busy,
                   latency_ms, shutdown, agent>>

\* CancelledError is raised at the await of the sleep, outside the try
\* block: it leaves ping_worker, and `await task` in lifespan gets it
Cancelled ==
    /\ shutdown
    /\ ppc \in {"asleep", "sleep"}
    /\ ppc' = "cancelled"
    /\ UNCHANGED <<clock, genVars, dbVars, callVars, readVars,
                   snap, todo, pnow, pstart, is_online, pending, dbwriter, plog, nback, busy,
                   latency_ms, shutdown, ncycle, agent>>

(***************************************************************************)
(* The worker specification: ping_worker over NWorker servers for          *)
(* MaxCycles iterations, with pings that succeed or raise at once, storage *)
(* faults, a clock that may be set back while a ping runs, and a shutdown  *)
(* during any sleep.  The event loop runs the task whenever it can take a  *)
(* step and time passes: weak fairness of the task's steps.                *)
(***************************************************************************)
NWorker == 2

\* The latest clock reading
WorkerEnd == 1000 * (MaxCycles + 1) * (CycleSleep + NWorker * ProbeTimeout)

\* The steps of the task and of time (the identities of a cycle over
\* NWorker servers fit into one millisecond: next_id never waits)
WorkerSteps ==
    \/ Call
    \/ \E o \in {"ok", "fault"} : ProbeDone(o)
    \/ Record
    \/ AllocRaised
    \/ RecordFailed
    \/ Abort
    \/ Commit
    \/ Close
    \/ GenRead(Prober) /\ UNCHANGED <<dbVars, callVars, readVars, probeVars, agent>>
    \/ GenCompose(Prober) /\ UNCHANGED <<dbVars, callVars, readVars, probeVars, agent>>
    \/ Returned
    \/ Caught
    \/ WakeUp(WorkerEnd)
    \/ Cancelled

WorkerNext ==
    \/ WorkerSteps
    \/ StorageFault
    \/ ppc = "probe" /\ SetBack
    \/ Shutdown

SpecWorker == ProbeInit(NWorker) /\ [][WorkerNext]_vars /\ WF_vars(WorkerSteps)

(***************************************************************************)
(* src/agent.py: main() in its loop mode.  agent.pc: "none" (not started), *)
(* "exit" (sys.exit(1): no identity configured), "collect", "report"       *)
(* (metrics collected, report_heartbeat is called next), "skip" (the       *)
(* collection failed), "sleep".  agent.sent is the list of the requests    *)
(* posted to /api/heartbeat; agent.result is what the last call of         *)
(* report_heartbeat returned.                                              *)
(***************************************************************************)
\* Rounds of the reporting loop that are followed
MaxRounds == 2

\* --interval, default 60 (seconds)
ReportInterval == 60

\* --server-id and --server-name as given on the command line ("" if not)
AgentIds == {"", "s1"}
AgentNames == {"", "X"}

\* What collect_metrics() returns when psutil does not raise
MetricChoices ==
    {[cpu_load |-> c, mem_load |-> m, up_bytes |-> 7, down_bytes |-> 9] :
        c \in {0, 50}, m \in {0, 50}}

\* main(): the arguments are parsed; without --server-id and --server-name
\* the client exits, otherwise it enters `while True`
AgentStart(id, name) ==
    /\ agent.pc = "none"
    /\ agent' = [pc |-> IF id = "" /\ name = "" THEN "exit" ELSE "collect",
                 server_id |-> id, server_name |-> name,
                 metrics |-> <<>>, sent |-> <<>>, result |-> <<>>, rounds |-> 0]
    /\ UNCHANGED <<clock, genVars, dbVars, callVars, readVars, probeVars>>

\* metrics = collect_metrics(): the dict, or None when psutil raised
CollectMetrics ==
    /\ agent.pc = "collect"
    /\ \E m \in {<<x>> : x \in MetricChoices} \cup {<<>>} :
          agent' = [agent EXCEPT !.metrics = m,
                                 !.pc = IF m = <<>> THEN "skip" ELSE "report"]
    /\ UNCHANGED <<clock, genVars, dbVars, callVars, readVars, probeVars>>

\* The request the statements after `if not metrics` would post: the code
\* that builds and sends it is not part of report_heartbeat (it follows the
\* last return of register_server)
HeartbeatRequest(id, name, m) ==
    [cpu_load |-> m.cpu_load, mem_load |-> m.mem_load,
     up_bytes |-> m.up_bytes, down_bytes |-> m.down_bytes,
     server_id |-> id, server_name |-> IF id # "" THEN "" ELSE name]

\* report_heartbeat(server_url, server_id, server_name, metrics): what it
\* returns and what it posts.  `if not metrics: return False`; then the
\* function body ends: None is returned and nothing is posted.
ReportHeartbeatReturn(m) == IF m = <<>> THEN "False" ELSE "None"
ReportHeartbeatPosts(id, name, m) == <<>>

\* if metrics: report_heartbeat(args.server_url, args.server_id,
\* args.server_name, metrics)
ReportRound ==
    /\ agent.pc = "report"
    /\ agent' = [agent EXCEPT
                   !.sent = agent.sent \o
                            ReportHeartbeatPosts(agent.server_id, agent.server_name, agent.metrics),
                   !.result = <<ReportHeartbeatReturn(agent.metrics)>>,
                   !.pc = "sleep"]
    /\ UNCHANGED <<clock, genVars, dbVars, callVars, readVars, probeVars>>

\* else: print(...): the round is skipped
SkipRound ==
    /\ agent.pc = "skip"
    /\ agent' = [agent EXCEPT !.pc = "sleep"]
    /\ UNCHANGED <<clock, genVars, dbVars, callVars, readVars, probeVars>>

\* time.sleep(args.interval); the next round
AgentSleep ==
    /\ agent.pc = "sleep"
    /\ agent.rounds < MaxRounds
    /\ ClockMove(1000 * ReportInterval, 1000 * ReportInterval * MaxRounds)
    /\ agent' = [agent EXCEPT !.pc = "collect", !.rounds = agent.rounds + 1]
    /\ UNCHANGED <<genVars, dbVars, callVars, readVars, probeVars>>

(***************************************************************************)
(* The agent specification: one client, any identity configuration, any    *)
(* result of the collection in every round.                                *)
(***************************************************************************)
AgentNext ==
    \/ \E id \in AgentIds, name \in AgentNames : AgentStart(id, name)
    \/ CollectMetrics
    \/ ReportRound
    \/ SkipRound
    \/ AgentSleep

SpecAgent == Init /\ [][AgentNext]_vars

(***************************************************************************)
(* get_status_page_data: the health of every server, in the order of       *)
(* get_all_servers(), folded into overall_status.  The other fields of a   *)
(* server's entry (timeline, current usage, resource series) are results   *)
(* of the read-side queries above and do not enter overall_status.         *)
(***************************************************************************)
RECURSIVE OverallStatusLastWins(_, _)
\* A variant of the loop without the test `overall_status == "ok"`
OverallStatusLastWins(list, overall) ==
    IF list = <<>> THEN overall
    ELSE OverallStatusLastWins(Tail(list),
             IF Head(list).ping_health = "down" \/ Head(list).heartbeat_health = "down"
             THEN "error"
             ELSE IF Head(list).ping_health = "warn" THEN "warn"
             ELSE overall)

RECURSIVE OverallStatus(_, _)
\* for server in servers: if ... "down": overall_status = "error"
\* elif ping_health == "warn" and overall_status == "ok": ... = "warn"
OverallStatus(list, overall) ==
    IF list = <<>> THEN overall
    ELSE OverallStatus(Tail(list),
             IF Head(list).ping_health = "down" \/ Head(list).heartbeat_health = "down"
             THEN "error"
             ELSE IF Head(list).ping_health = "warn" /\ overall = "ok" THEN "warn"
             ELSE overall)

\* What `ORDER BY ts DESC LIMIT 1` of get_server_health_status may fetch
LatestChoices(sid) ==
    IF LatestPings(sid, TimeSeconds - PingOkWindow) = {}
    THEN {<<>>}
    ELSE {<<p>> : p \in LatestPings(sid, TimeSeconds - PingOkWindow)}

\* server_data, given the list of the servers and the row fetched for each
ServerData(list, latest) ==
    [k \in 1..Len(list) |->
        [id |-> list[k].id, name |-> list[k].name, ip |-> list[k].ip,
         ping_health |-> PingHealth(list[k].id, TimeSeconds, latest[list[k].id]),
         heartbeat_health |-> HeartbeatHealth(list[k].id, TimeSeconds)]]

\* get_status_page_data()
StatusPageQuery ==
    /\ \E list \in SortedByCreation(servers) :
       \E latest \in [{r.id : r \in servers} -> {<<>>} \cup {<<p>> : p \in ping_status}] :
          /\ \A r \in servers : latest[r.id] \in LatestChoices(r.id)
          /\ reply' = [op |-> "status_page",
                       overall_status |-> OverallStatus(ServerData(list, latest), "ok"),
                       servers |-> ServerData(list, latest)]
    /\ UNCHANGED <<clock, genVars, dbVars, callVars, probeVars, agent>>

(***************************************************************************)
(* The status-page specification: get_status_page_data at one `now`, over  *)
(* none, one or both of the servers "X" and "Y" (registered in the same    *)
(* second) with the rows probe cycles and agents can have written.         *)
(***************************************************************************)
\* Ages of the rows of the second server
OtherAges == {1, 300}

PageInit ==
    /\ clock = 1000 * AggNow
    /\ sequence = 1
    /\ last_timestamp = 0
    /\ lock = None
    /\ gpc = [t \in Threads |-> "out"]
    /\ timestamp = [t \in Threads |-> -1]
    /\ gret = [t \in Threads |-> <<>>]
    /\ idlog = << <<IdX>>, <<IdY>> >>
    /\ CallInit
    /\ reply = NoReply
    /\ prev = NoReply
    /\ ProbeIdle
    /\ \E S \in SUBSET TwoServers,
          P \in SubsetsUpTo({PingRow(IdX, a, o) : a \in PingAges, o \in {0, 1}}, MaxPings),
          H \in SubsetsUpTo({HbRow(IdX, a) : a \in HbAges}, MaxHbs),
          PY \in SubsetsUpTo({PingRow(IdY, a, o) : a \in OtherAges, o \in {0, 1}}, 1),
          HY \in SubsetsUpTo({HbRow(IdY, 1)}, 1) :
          /\ CyclesApart(P)
          /\ servers = S
          /\ ping_status = {p \in P \cup PY : p.server_id \in {r.id : r \in S}}
          /\ heartbeat_status = {h \in H \cup HY : h.server_id \in {r.id : r \in S}}

PageNext == StatusPageQuery /\ UNCHANGED prev

SpecPage == PageInit /\ [][PageNext]_vars

(***************************************************************************)
(* The shared-storage specification: one probe cycle and, on another       *)
(* connection, one record_heartbeat call and health queries.  A statement  *)
(* that writes needs the write lock of the database file; while the cycle  *)
(* holds it (from its first INSERT to its commit) the statement waits, and *)
(* raises sqlite3.OperationalError when it has waited for BusyTimeout      *)
(* seconds.  SELECTs read the committed rows and do not wait.  No server   *)
(* answers its ping (the pings are the ones that last).                    *)
(***************************************************************************)
Reporter == "t2"

\* The statement caller c is about to run writes
AtWrite(c) ==
    \/ pc[c] = "update"
    \/ pc[c] \in {"alloc", "hb_alloc"} /\ gpc[c] = "out"

\* The statement finds the database locked and starts to wait
Blocked(c) ==
    /\ AtWrite(c)
    /\ dbwriter \notin {None, c}
    /\ IF busy[c] = <<>> THEN TRUE ELSE busy[c][1] # pc[c]
    /\ busy' = [busy EXCEPT ![c] = <<pc[c], clock>>]
    /\ UNCHANGED <<clock, genVars, dbVars, callVars, readVars,
                   ppc, snap, todo, pnow, pstart, is_online, pending, dbwriter, plog, nback,
                   latency_ms, shutdown, ncycle, agent>>

\* The wait has lasted 5 s: "database is locked" is raised and leaves
\* get_or_create_server and record_heartbeat
LockTimeout(c) ==
    /\ AtWrite(c)
    /\ dbwriter \notin {None, c}
    /\ IF busy[c] = <<>> THEN FALSE
       ELSE busy[c][1] = pc[c] /\ clock - busy[c][2] >= 1000 * BusyTimeout
    /\ pc' = [pc EXCEPT ![c] = "failed"]
    /\ ret' = [ret EXCEPT ![c] = [kind |-> "OperationalError", server |-> <<>>, id |-> <<>>]]
    /\ UNCHANGED <<clock, genVars, dbVars, readVars, probeVars, arg, now, row, ncalls, agent>>

\* As many servers as a cycle needs to hold the lock for BusyTimeout seconds
\* when every ping after the first runs for ProbeTimeout seconds
NShared == 2 + BusyTimeout \div ProbeTimeout

\* The steps of a cycle over n servers none of which answers its ping
UnreachableSteps(n) ==
    \/ CycleStart
    \/ ProbeTick(ProbeEnd(n))
    \/ ProbeDone("fail")
    \/ Record
    \/ Commit
    \/ Close
    \/ GenRead(Prober) /\ UNCHANGED <<dbVars, callVars, readVars, probeVars, agent>>
    \/ GenSpin(Prober) /\ UNCHANGED <<dbVars, callVars, readVars, probeVars, agent>>
    \/ GenCompose(Prober) /\ UNCHANGED <<dbVars, callVars, readVars, probeVars, agent>>
    \/ SpinTick(ProbeEnd(n))

\* The report of the registered server "X"; client_ip is always supplied
\* (src/main.py:58)
ReportSteps ==
    \/ StartCall(Reporter, "record_heartbeat", {}, "X", "b", 1)
    \/ ByName(Reporter)
    \/ Update(Reporter)
    \/ HbNow(Reporter)
    \/ HbInsert(Reporter)
    \/ GenRead(Reporter) /\ UNCHANGED <<dbVars, callVars, readVars, probeVars, agent>>
    \/ GenSpin(Reporter) /\ UNCHANGED <<dbVars, callVars, readVars, probeVars, agent>>
    \/ GenCompose(Reporter) /\ UNCHANGED <<dbVars, callVars, readVars, probeVars, agent>>
    \/ Blocked(Reporter)
    \/ LockTimeout(Reporter)

ShareNext ==
    \/ UnreachableSteps(NShared)
    \/ ReportSteps
    \/ HealthQuery(ProbedServer(1).id) /\ UNCHANGED prev

SpecShare == ProbeInit(NShared) /\ [][ShareNext]_vars

(***************************************************************************)
(* Claims about the identifier generator (SpecId).                         *)
(***************************************************************************)
\* The fields of an identifier
IdMillis(id) == id \div Pow2(SeqBits + WorkerBits)
IdSequence(id) == id % Pow2(SeqBits)

\* Positions of idlog at which a call returned an identifier
Issued == {i \in 1..Len(idlog) : idlog[i] # <<>>}

\* C1: whatever the interleaving of the threads calling next_id(), the
\* identifiers returned are pairwise distinct and non-decreasing in the order
\* in which the calls passed the critical section, and no two of them carry
\* the same (timestamp, sequence) pair.
C1_IdsDistinctOrdered ==
    \A i, j \in Issued :
        i < j =>
            /\ idlog[i][1] # idlog[j][1]
            /\ idlog[i][1] <= idlog[j][1]
            /\ <<IdMillis(idlog[i][1]), IdSequence(idlog[i][1])>>
                  # <<IdMillis(idlog[j][1]), IdSequence(idlog[j][1])>>

\* C1 witness: a thread waits for the lock another one holds, after the
\* sequence has rolled over: an identifier with sequence 0 follows one of the
\* millisecond before with the last sequence number.
C1_Witness ==
    /\ \E t, u \in Threads : gpc[t] = "want" /\ lock = u /\ u # t
    /\ \E i, j \in Issued :
          /\ j > i
          /\ IdSequence(idlog[i][1]) = SeqSize - 1
          /\ IdSequence(idlog[j][1]) = 0
          /\ IdMillis(idlog[j][1]) = IdMillis(idlog[i][1]) + 1

\* C2: a call that reads a clock value below last_timestamp raises, returns
\* no identifier, leaves last_timestamp and sequence as they were and
\* releases the lock; a call that reads a value >= last_timestamp does not
\* raise, and an identifier returned after a call has raised repeats no
\* earlier identifier.
C2_RewindRaises ==
    [][/\ \A t \in Threads :
             (gpc[t] = "want" /\ gpc'[t] # "want") =>
                 IF clock < last_timestamp
                 THEN /\ gpc'[t] = "raised"
                      /\ gret'[t] = <<>>
                      /\ idlog' = Append(idlog, <<>>)
                      /\ last_timestamp' = last_timestamp
                      /\ sequence' = sequence
                      /\ lock' = None
                 ELSE /\ gpc'[t] \in {"spin", "compose"}
                      /\ idlog' = idlog
       /\ \A t \in Threads :
             (gpc[t] = "compose" /\ gpc'[t] = "out" /\ <<>> \in {idlog[i] : i \in 1..Len(idlog)}) =>
                 /\ gret'[t] # <<>>
                 /\ idlog' = Append(idlog, gret'[t])
                 /\ \A i \in Issued : idlog[i] # gret'[t]
      ]_vars

\* C2 witness: a call raised between two calls that returned identifiers.
C2_Witness ==
    \E i, j, k \in 1..Len(idlog) :
        i < j /\ j < k /\ idlog[i] # <<>> /\ idlog[j] = <<>> /\ idlog[k] # <<>>

(***************************************************************************)
(* Claims about the registry (SpecSeq: one caller; SpecReg: concurrent).   *)
(***************************************************************************)
\* The step is one in which get_or_create_server, called by c, returns
\* (row'[c] is what it returns)
GcsReturns(c) ==
    /\ pc[c] \in {"by_id", "by_name", "update", "reselect"}
    /\ pc'[c] \in {"done", "failed", "hb_now"}

\* The step is one of caller c
StepOf(c) == pc'[c] # pc[c] \/ gpc'[c] # gpc[c] \/ timestamp'[c] # timestamp[c]

ServerIds(S) == {r.id : r \in S}

\* C3: with one caller at a time, a resolution by name with no identity
\* supplied returns the identity of the one server row of that name, which is
\* the identity every earlier resolution of the name returned (no row ever
\* loses its identity or name); a supplied address is stored in that row.
C3_NameIdempotent ==
    [][/\ \A r \in servers : \E q \in servers' : q.id = r.id /\ q.name = r.name
       /\ \A c \in Threads :
             (GcsReturns(c) /\ ~SuppliedId(arg[c].server_id) /\ Supplied(arg[c].server_name)) =>
                 LET named == {q \in servers' : q.name = arg[c].server_name}
                 IN  /\ row'[c] # <<>>
                     /\ Cardinality(named) = 1
                     /\ \A q \in named :
                           /\ q.id = row'[c][1].id
                           /\ Supplied(arg[c].ip) => q.ip = arg[c].ip
                     /\ \A r \in servers :
                           r.name = arg[c].server_name => r.id = row'[c][1].id
      ]_vars

\* C3 witness: the third resolution of "X" has returned; it brought address
\* "b", which replaced, at a later time, the address the row was created with.
C3_Witness ==
    /\ ncalls = 3
    /\ pc["t1"] = "done"
    /\ arg["t1"] = [op |-> "get_or_create_server", server_id |-> {},
                    server_name |-> "X", ip |-> "b"]
    /\ \E r \in servers :
          /\ r.name = "X" /\ r.ip = "b" /\ r.updated_at > r.created_at
          /\ ret["t1"].server # <<>>
          /\ ret["t1"].server[1].id = r.id
          /\ ret["t1"].server[1].ip = "a"

\* C4 (as claimed): a call with an identity that no server has returns
\* NotFound and creates or changes no server row, whatever the other
\* arguments are.
C4_UnknownIdNotFound ==
    [][\A c \in Threads :
          (StepOf(c) /\ SuppliedId(arg[c].server_id)
                     /\ arg[c].server_id \cap ServerIds(servers) = {}) =>
              /\ servers' = servers
              /\ GcsReturns(c) => row'[c] = <<>>
      ]_vars

\* C5: when neither an identity nor a name is supplied, get_or_create_server
\* returns no server and record_heartbeat raises ValueError; the call writes
\* no row in any table and calls next_id() not at all.
C5_NeitherSupplied ==
    [][\A c \in Threads :
          (StepOf(c) /\ pc[c] # "idle" /\ pc[c] # "done" /\ pc[c] # "failed"
                     /\ ~SuppliedId(arg[c].server_id) /\ ~Supplied(arg[c].server_name)) =>
              /\ UNCHANGED <<dbVars, genVars>>
              /\ GcsReturns(c)
              /\ row'[c] = <<>>
              /\ IF arg[c].op = "record_heartbeat"
                 THEN pc'[c] = "failed" /\ ret'[c].kind = "ValueError"
                 ELSE pc'[c] = "done" /\ ret'[c].kind = "server" /\ ret'[c].server = <<>>
      ]_vars

\* C5 witness: record_heartbeat with neither argument has raised ValueError
\* on a registry that has a server and a heartbeat.
C5_Witness ==
    /\ pc["t1"] = "failed"
    /\ ret["t1"].kind = "ValueError"
    /\ arg["t1"].op = "record_heartbeat"
    /\ arg["t1"].server_id = {} /\ arg["t1"].server_name = ""
    /\ servers # {} /\ heartbeat_status # {}

\* C6 (as claimed): no two server rows share a name, also when callers
\* resolve a new name concurrently.
C6_NameUnique ==
    \A r, q \in servers : r.name = q.name => r = q

(***************************************************************************)
(* Claims about the read-side queries (SpecAgg)                            *)
(***************************************************************************)
\* The events of server sid, as the claims speak of them
ReachabilityEvents(sid) == {p \in ping_status : p.server_id = sid}
HeartbeatEvents(sid) == {h \in heartbeat_status : h.server_id = sid}

\* The most recent reachability events of sid with ts >= t
MostRecent(sid, t) ==
    {p \in ReachabilityEvents(sid) :
        /\ p.ts >= t
        /\ \A q \in ReachabilityEvents(sid) : q.ts >= t => q.ts <= p.ts}

C8_ReportingAxis ==
    reply.op = "health" =>
        /\ reply.value.heartbeat_health \in {"ok", "down"}
        /\ (reply.value.heartbeat_health = "ok") <=>
               (\E h \in HeartbeatEvents(reply.server_id) : h.ts >= TimeSeconds - 120)

\* C8 witness: the server's only heartbeat is 121 s old, its reachability is
\* "ok" and the other server has a fresh heartbeat: reporting is "down".
C8_Witness ==
    /\ reply.op = "health" /\ reply.server_id = IdX
    /\ HbRow(IdX, 121) \in heartbeat_status
    /\ HbRow(IdY, 1) \in heartbeat_status
    /\ reply.value.ping_health = "ok"
    /\ reply.value.heartbeat_health = "down"

\* The events of the reply's server in bucket k (1-based) of the timeline
\* the reply holds
BucketPings(k) ==
    {p \in ReachabilityEvents(reply.server_id) :
        /\ p.ts >= SlotStart(TimeSeconds, reply.slots, k - 1)
        /\ p.ts < SlotEnd(TimeSeconds, reply.slots, k - 1)}
BucketHeartbeats(k) ==
    {h \in HeartbeatEvents(reply.server_id) :
        /\ h.ts >= SlotStart(TimeSeconds, reply.slots, k - 1)
        /\ h.ts < SlotEnd(TimeSeconds, reply.slots, k - 1)}

\* C9 (as claimed): in every bucket of get_24h_timeline the ping state is 0
\* exactly when no reachability event of the server falls in the bucket, 1
\* when at least 0.8 of the bucket's events are reachable and -1 in every
\* other case, a bucket of failures only included; the heartbeat state is 1
\* exactly when a heartbeat event falls in the bucket.
C9_BucketStates ==
    reply.op = "timeline" =>
        \A k \in DOMAIN reply.value :
            LET R == BucketPings(k)
                good == Cardinality({p \in R : p.is_online = 1})
            IN  /\ (reply.value[k].ping = 0) <=> (R = {})
                /\ (R # {} /\ 10 * good >= 8 * Cardinality(R)) => reply.value[k].ping = 1
                /\ (R # {} /\ 10 * good < 8 * Cardinality(R)) => reply.value[k].ping = -1
                /\ (reply.value[k].heartbeat = 1) <=> (BucketHeartbeats(k) # {})

\* C10 (as claimed): get_24h_timeline returns bucketCount entries whose
\* ranges are contiguous and cover [now-86400, now) for every bucketCount:
\* every event of the window lies in exactly one bucket and is counted
\* there.
C10_BucketsCoverWindow ==
    reply.op = "timeline" =>
        /\ Len(reply.value) = reply.slots
        /\ SlotStart(TimeSeconds, reply.slots, 0) = TimeSeconds - 86400
        /\ \A k \in 1..(reply.slots - 1) :
               SlotEnd(TimeSeconds, reply.slots, k - 1) = SlotStart(TimeSeconds, reply.slots, k)
        /\ SlotEnd(TimeSeconds, reply.slots, reply.slots - 1) = TimeSeconds
        /\ \A p \in ReachabilityEvents(reply.server_id) :
               (p.ts >= TimeSeconds - 86400 /\ p.ts < TimeSeconds) =>
                   Cardinality({k \in DOMAIN reply.value : p \in BucketPings(k)}) = 1
        /\ \A h \in HeartbeatEvents(reply.server_id) :
               (h.ts >= TimeSeconds - 86400 /\ h.ts < TimeSeconds) =>
                   /\ Cardinality({k \in DOMAIN reply.value : h \in BucketHeartbeats(k)}) = 1
                   /\ \E k \in DOMAIN reply.value : reply.value[k].heartbeat = 1

(***************************************************************************)
(* Claims about get_server_resource_series and about re-runs (SpecRes)     *)
(***************************************************************************)
\* The heartbeat events of the reply's server inside the window of the
\* series the reply holds (ts >= windowStart)
WindowEvents ==
    {h \in HeartbeatEvents(reply.server_id) : h.ts >= TimeSeconds - 86400}

\* min(floor((ts - windowStart) / bucketWidth), pointCount - 1) with the
\* real-valued bucketWidth = 86400 / pointCount
ClaimedIndex(h) ==
    LET i == ((h.ts - (TimeSeconds - 86400)) * reply.slots) \div 86400
    IN  IF i < reply.slots - 1 THEN i ELSE reply.slots - 1

\* The average of the non-null values f of the events R: <<>> without such
\* a value, else the fraction sum / count in lowest terms
ClaimedAverage(R, f) ==
    LET V == {h \in R : h[f] # <<>>}
    IN  IF V = {} THEN <<>>
        ELSE << [num |-> SumLoads(V, f) \div Gcd(SumLoads(V, f), Cardinality(V)),
                 den |-> Cardinality(V) \div Gcd(SumLoads(V, f), Cardinality(V))] >>

\* C11 (as claimed): get_server_resource_series puts every heartbeat event
\* with ts >= windowStart into the one bucket with index
\* min(floor((ts - windowStart) / bucketWidth), pointCount - 1), which lies
\* in 0..pointCount-1, and the averages of a bucket are made of the events
\* of that index only.
C11_BucketOfEvent ==
    reply.op = "series" =>
        /\ \A h \in WindowEvents :
              /\ BucketIndex(h.ts, TimeSeconds, reply.slots) \in 0..(reply.slots - 1)
              /\ BucketIndex(h.ts, TimeSeconds, reply.slots) = ClaimedIndex(h)
        /\ \A k \in DOMAIN reply.value :
              /\ reply.value[k].cpu =
                    ClaimedAverage({h \in WindowEvents : ClaimedIndex(h) = k - 1}, "cpu_load")
              /\ reply.value[k].mem =
                    ClaimedAverage({h \in WindowEvents : ClaimedIndex(h) = k - 1}, "mem_load")

\* The events get_server_resource_series has put into bucket k (1-based) of
\* the series the reply holds
BucketEvents(k) ==
    {h \in WindowEvents : BucketIndex(h.ts, TimeSeconds, reply.slots) = k - 1}

\* C12: in every bucket of get_server_resource_series the cpu average is
\* the sum of the non-null cpu values of the bucket's events divided by
\* their number, and so is the memory average, each on its own: an event
\* without a memory value still counts for cpu, and a metric without any
\* value in the bucket is no-value.
C12_AveragesIndependent ==
    reply.op = "series" =>
        \A k \in DOMAIN reply.value :
            /\ reply.value[k].cpu = ClaimedAverage(BucketEvents(k), "cpu_load")
            /\ reply.value[k].mem = ClaimedAverage(BucketEvents(k), "mem_load")
            /\ (reply.value[k].cpu = <<>>) <=> (\A h \in BucketEvents(k) : h.cpu_load = <<>>)
            /\ (reply.value[k].mem = <<>>) <=> (\A h \in BucketEvents(k) : h.mem_load = <<>>)

\* C12 witness: the newest of 60 buckets holds an event with cpu 70 and no
\* memory value and an event with cpu 50 and memory 30: cpu is 60, memory
\* is 30; the oldest bucket has no value.
C12_Witness ==
    /\ reply.op = "series" /\ reply.server_id = IdX /\ reply.slots = 60
    /\ ResRow(IdX, 0, << <<70>>, <<>> >>) \in heartbeat_status
    /\ ResRow(IdX, 1, << <<50>>, <<30>> >>) \in heartbeat_status
    /\ reply.value[60].cpu = << [num |-> 60, den |-> 1] >>
    /\ reply.value[60].mem = << [num |-> 30, den |-> 1] >>
    /\ reply.value[1].cpu = <<>> /\ reply.value[1].mem = <<>>

\* The server of the reply has no reachability and no heartbeat event in
\* the trailing 24 h window
NoEventsInWindow ==
    /\ \A p \in ReachabilityEvents(reply.server_id) : p.ts < TimeSeconds - 86400
    /\ \A h \in HeartbeatEvents(reply.server_id) : h.ts < TimeSeconds - 86400

\* C13: for a server without events in the window, get_24h_timeline returns
\* 288 buckets that are all {ping: 0, heartbeat: 0}, and
\* get_server_resource_series returns pointCount points without cpu and
\* mem value and with strictly increasing start times.
C13_EmptyHistory ==
    /\ (reply.op = "timeline" /\ NoEventsInWindow) =>
           /\ Len(reply.value) = 288
           /\ \A k \in 1..288 : reply.value[k] = [ping |-> 0, heartbeat |-> 0]
    /\ (reply.op = "series" /\ NoEventsInWindow) =>
           /\ Len(reply.value) = reply.slots
           /\ \A k \in 1..reply.slots :
                 reply.value[k].cpu = <<>> /\ reply.value[k].mem = <<>>
           /\ \A k \in 1..(reply.slots - 1) : reply.value[k].ts < reply.value[k + 1].ts

\* C13 witness: a server whose only heartbeat is older than the window has
\* been asked for its timeline and then for its series of 60 points.
C13_Witness ==
    /\ prev.op = "timeline" /\ prev.server_id = IdX /\ Len(prev.value) = 288
    /\ reply.op = "series" /\ reply.server_id = IdX /\ Len(reply.value) = 60
    /\ NoEventsInWindow
    /\ HeartbeatEvents(IdX) # {}
    /\ reply.value[60] = [ts |-> TimeSeconds - 1440, cpu |-> <<>>, mem |-> <<>>]

StoredIds ==
    ServerIds(servers) \cup {h.id : h \in heartbeat_status} \cup {p.id : p \in ping_status}

\* The step is the one in which record_heartbeat, called by c, returns its
\* result
HbReturns(c) == arg[c].op = "record_heartbeat" /\ pc[c] # "done" /\ pc'[c] = "done"

\* C18: a successful record_heartbeat appends exactly one heartbeat row,
\* with a fresh identity and with the identity of the server the call
\* resolved or created, and returns these two identifiers; no step removes
\* or changes a heartbeat or reachability row.
C18_HeartbeatAppended ==
    [][/\ heartbeat_status \subseteq heartbeat_status'
       /\ ping_status \subseteq ping_status'
       /\ \A c \in Threads :
             IF HbReturns(c)
             THEN \E h \in heartbeat_status' :
                     /\ heartbeat_status' = heartbeat_status \cup {h}
                     /\ h.id \notin StoredIds
                     /\ h.server_id \in ServerIds(servers)
                     /\ \E r \in servers :
                           /\ r.id = h.server_id
                           /\ Supplied(arg[c].server_name) /\ ~SuppliedId(arg[c].server_id)
                                 => r.name = arg[c].server_name
                     /\ ret'[c].kind = "heartbeat"
                     /\ ret'[c].id = <<h.id>>
                     /\ ret'[c].server[1].id = h.server_id
             ELSE StepOf(c) => heartbeat_status' = heartbeat_status
      ]_vars

\* C18 witness: the second heartbeat of a server created by the first has
\* been recorded, one second after the first, and both rows are stored.
C18_Witness ==
    /\ pc["t1"] = "done" /\ ret["t1"].kind = "heartbeat"
    /\ ncalls = 2
    /\ \E h, g \in heartbeat_status :
          /\ h.id # g.id /\ h.server_id = g.server_id /\ h.ts < g.ts
          /\ ret["t1"].id = <<g.id>>
          /\ ret["t1"].server[1].id = g.server_id

\* The step is one in which get_or_create_server, called by c, returns a
\* server it has found (by identity, or by name with or without refreshing
\* the address)
ReturnsExisting(c) ==
    /\ pc[c] \in {"by_id", "by_name", "update"}
    /\ pc'[c] \in {"done", "hb_now"}
    /\ row'[c] # <<>>

\* C19 (as claimed): a resolution that finds an existing server changes only
\* that row's address and update-timestamp, and only when an address was
\* supplied and the server was found by name; identity, name, creation
\* timestamp and all other rows stay, a resolution by identity changes
\* nothing; the server returned is the stored row after the call.
C19_ResolutionFrame ==
    [][\A c \in Threads :
          ReturnsExisting(c) =>
              /\ ServerIds(servers') = ServerIds(servers)
              /\ \A r \in servers : \E q \in servers' :
                    /\ q.id = r.id /\ q.name = r.name /\ q.created_at = r.created_at
                    /\ r.id # row'[c][1].id => q = r
                    /\ ~Supplied(arg[c].ip) => q = r
              /\ pc[c] = "by_id" => servers' = servers
              /\ row'[c][1] \in servers'
      ]_vars

(***************************************************************************)
(* Claims about the probe cycle (SpecProbe)                                *)
(***************************************************************************)
\* The reachability rows of the cycle that are stored (committed)
CycleRows == {p \in ping_status : p.ts = pnow /\ p.id \notin {h.id : h \in heartbeat_status}}

\* The outcome logged for server sid in the cycle, <<>> if it was not handled
OutcomeOf(sid) ==
    IF \E k \in DOMAIN plog : plog[k][1] = sid
    THEN <<plog[CHOOSE k \in DOMAIN plog : plog[k][1] = sid][2]>>
    ELSE <<>>

\* C14: a completed probe cycle has written exactly one reachability row
\* for every server registered when it started and none for another
\* server, whatever the outcomes of the pings were; the row says reachable
\* exactly when the ping returned status 0.
C14_OneRowPerServer ==
    ppc \in {"close", "finished"} =>
        /\ \A r \in servers :
              /\ Cardinality({p \in CycleRows : p.server_id = r.id}) = 1
              /\ \A p \in CycleRows :
                    p.server_id = r.id => (p.is_online = 1 <=> OutcomeOf(r.id) \in {<<"ok">>, <<"ok_notime">>})
        /\ \A p \in CycleRows : p.server_id \in ServerIds(servers)
        /\ {snap[k].id : k \in DOMAIN snap} = ServerIds(servers)

\* C14 witness: a cycle over three servers has finished; one ping returned
\* status 0, one another status, one raised.
C14_Witness ==
    /\ ppc = "finished"
    /\ Cardinality(CycleRows) >= 3
    /\ {plog[k][2] : k \in DOMAIN plog} = {"ok", "fail", "fault"}

\* C15 (as claimed): a failure while one server is handled - a ping that
\* fails or raises, or a failed allocation of the row's identity - is
\* recorded as not reachable for that server and never ends the cycle early:
\* the cycle is not aborted, and when it is over every server has its row.
C15_FailureContained ==
    /\ ppc # "aborted"
    /\ ppc \in {"close", "finished"} =>
          \A r \in servers :
             /\ OutcomeOf(r.id) # <<>>
             /\ OutcomeOf(r.id) \notin {<<"ok">>, <<"ok_notime">>} =>
                   \E p \in CycleRows : p.server_id = r.id /\ p.is_online = 0

\* C20: after a crash during a probe cycle the stored rows of the cycle
\* belong to a prefix of the cycle's server list, one row each, and the
\* prefix ends before the server handled at the time of the crash.
C20_CrashLeavesPrefix ==
    ppc = "crashed" =>
        \E n \in 0..(Len(snap) - Len(todo)) :
            /\ {p.server_id : p \in CycleRows} = {snap[k].id : k \in 1..n}
            /\ Cardinality(CycleRows) = n

\* C20 witness: the process died while the last of three servers was
\* handled, after the rows of the first two had been inserted.
C20_Witness ==
    /\ ppc = "crashed"
    /\ Len(snap) = 3 /\ Len(todo) = 1 /\ Len(plog) = 3
    /\ CycleRows = {}

(***************************************************************************)
(* Claim about the shared storage (SpecShare)                              *)
(***************************************************************************)
\* C16 (as claimed): a heartbeat ingestion and health reads that run while
\* a probe cycle is between its first INSERT and its commit complete
\* without deadlock and without a lost row: the write lock is given back,
\* the ingestion does not fail, and once both are over the store holds the
\* heartbeat row and a reachability row of the cycle for every server.
C16_SharedStorage ==
    /\ pc[Reporter] # "failed"
    /\ ppc \in {"close", "finished"} => dbwriter = None
    /\ (ppc = "finished" /\ pc[Reporter] = "done") =>
          /\ \E h \in heartbeat_status :
                <<h.id>> = ret[Reporter].id /\ <<h.server_id>> = <<ret[Reporter].server[1].id>>
          /\ \A r \in servers : \E p \in CycleRows : p.server_id = r.id

(***************************************************************************)
(* Claim about the latency of a reachability row (SpecProbe)               *)
(***************************************************************************)
\* The rows the cycle has inserted, committed or not
InsertedRows == pending \cup CycleRows

C21_WorkerSurvives ==
    /\ [](ppc # "stopped")
    /\ \A k \in 0..(MaxCycles - 1) :
          (ppc = "aborted" /\ ncycle = k) ~> (shutdown \/ (ncycle = k + 1 /\ ppc = "sleep"))

\* C21 witness: ping_and_record is called for the third time after the two
\* cycles before it have both failed (nothing is stored) and no shutdown.
C21_Witness ==
    /\ ncycle = MaxCycles
    /\ ppc = "probe"
    /\ ping_status = {}
    /\ ~shutdown

\* The seconds `now` of the probe cycles that have rows in the store
CycleTimes == {p.ts : p \in ping_status}

\* C22: after the shutdown has cancelled the task no probe cycle starts and
\* the task ends (the cancellation is not caught by the worker's handler);
\* the rows of every cycle are in the store for all its servers or for
\* none, and the cancelled task leaves no open transaction.
C22_CleanShutdown ==
    /\ [][shutdown => (shutdown' /\ ncycle' = ncycle /\ ppc' \in {ppc, "cancelled"})]_vars
    /\ shutdown ~> (ppc = "cancelled")
    /\ [](\A t \in CycleTimes :
             /\ {p.server_id : p \in {q \in ping_status : q.ts = t}} = ServerIds(servers)
             /\ Cardinality({q \in ping_status : q.ts = t}) = Cardinality(servers))
    /\ [](ppc = "cancelled" => pending = {} /\ dbwriter = None)

\* C22 witness: the task was cancelled in its second sleep; one of the two
\* cycles before it was committed and the other one failed.
C22_Witness ==
    /\ ppc = "cancelled"
    /\ shutdown
    /\ ncycle = 1
    /\ Cardinality(CycleTimes) = 1

(***************************************************************************)
(* Claim about the roll-over of the sequence (SpecIdFair)                  *)
(***************************************************************************)
\* C23: a call of next_id() that finds the sequence of the current
\* millisecond used up (it wraps to 0) stays in its wait loop, holding the
\* lock, until it has read a clock value above last_timestamp, and returns
\* the identifier of that value with sequence 0; callers waiting for the
\* lock do not move meanwhile; and the call does not wait for ever once the
\* clock stays above last_timestamp.
C23_RollOverWaits ==
    /\ [][\A t \in Threads :
            /\ (gpc[t] = "want" /\ gpc'[t] = "spin") =>
                  clock = last_timestamp /\ sequence = SeqSize - 1 /\ sequence' = 0
            /\ gpc[t] = "spin" =>
                  /\ lock = t
                  /\ gpc'[t] \in {"spin", "compose"}
                  /\ gpc'[t] = "compose" => (timestamp[t] > last_timestamp /\ sequence = 0)
                  /\ \A u \in Threads \ {t} : gpc[u] = "want" => gpc'[u] = "want"
            /\ (gpc[t] = "compose" /\ gpc'[t] = "out" /\ timestamp[t] > last_timestamp) =>
                  /\ IdMillis(gret'[t][1]) = timestamp[t]
                  /\ IdSequence(gret'[t][1]) = 0
                  /\ last_timestamp' = timestamp[t]
         ]_vars
    /\ \A t \in Threads : []<>(gpc[t] # "spin" \/ clock <= last_timestamp)

\* C23 witness: a call that has waited (the identifier before it has the
\* last sequence number of the millisecond before) has returned, while
\* another caller is waiting for the lock.
C23_Witness ==
    \E t, u \in Threads :
        /\ gpc[t] = "out" /\ gret[t] # <<>>
        /\ gpc[u] = "want"
        /\ Len(idlog) >= SeqSize + 1
        /\ idlog[Len(idlog)] = gret[t]
        /\ idlog[Len(idlog) - 1] # <<>>
        /\ IdSequence(gret[t][1]) = 0
        /\ IdSequence(idlog[Len(idlog) - 1][1]) = SeqSize - 1
        /\ IdMillis(gret[t][1]) = IdMillis(idlog[Len(idlog) - 1][1]) + 1

(***************************************************************************)
(* Claim about the reporting client (SpecAgent)                            *)
(***************************************************************************)
\* C25 (as claimed): every round of the client's loop in which the metrics
\* were collected posts exactly one request to the heartbeat endpoint, with
\* these metrics and the configured identity, and report_heartbeat returns
\* whether the request succeeded; a round without metrics posts nothing.
C25_ReportEachRound ==
    [][/\ (agent.pc = "report" /\ agent'.pc = "sleep") =>
             /\ agent'.sent = Append(agent.sent,
                    HeartbeatRequest(agent.server_id, agent.server_name, agent.metrics[1]))
             /\ agent'.result \in {<<"True">>, <<"False">>}
       /\ (agent.pc = "skip" /\ agent'.pc = "sleep") => agent'.sent = agent.sent
      ]_vars

(***************************************************************************)
(* Claim about the status page (SpecPage)                                  *)
(***************************************************************************)
\* The entries of the reply, and every order in which they can be listed
PageEntries == {reply.servers[k] : k \in DOMAIN reply.servers}
EntryOrders ==
    {f \in [DOMAIN reply.servers -> PageEntries] :
        \A e \in PageEntries : \E k \in DOMAIN f : f[k] = e}

\* C26: the overall status of get_status_page_data is "error" exactly when
\* some server is "down" on the reachability or on the reporting axis,
\* "warn" exactly when none is and some server's reachability is "warn",
\* and "ok" otherwise (also without servers); the loop gives the same result
\* for every order of the servers.
C26_OverallStatus ==
    reply.op = "status_page" =>
        LET anyDown == \E e \in PageEntries :
                           e.ping_health = "down" \/ e.heartbeat_health = "down"
            anyWarn == \E e \in PageEntries : e.ping_health = "warn"
        IN  /\ reply.overall_status \in {"ok", "warn", "error"}
            /\ (reply.overall_status = "error") <=> anyDown
            /\ (reply.overall_status = "warn") <=> (~anyDown /\ anyWarn)
            /\ \A f \in EntryOrders : OverallStatus(f, "ok") = reply.overall_status

\* C26 witness: a server that is "down" is listed before one whose
\* reachability is "warn" and that reports: the overall status is "error".
C26_Witness ==
    /\ reply.op = "status_page"
    /\ Len(reply.servers) = 2
    /\ reply.servers[1].ping_health = "down"
    /\ reply.servers[2].ping_health = "warn" /\ reply.servers[2].heartbeat_health = "ok"
    /\ reply.overall_status = "error"

====
